---------------------------- MODULE Spec2Model ----------------------------
(***************************************************************************)
(* A model of nanozap: the multi-producer / single-consumer Ring           *)
(* (src/randring.go), the Logger facade and its drain loop                 *)
(* (src/nanozap.go), the checked entry (src/zapcore/entry.go) and the      *)
(* rotating file sink (zaproll).                                           *)
(*                                                                         *)
(* Atomic operations of the code (atomic.AddUint64, atomic.SwapPointer,    *)
(* atomic.LoadUint64) are one step each; the goroutine-local statements    *)
(* that follow an atomic operation belong to the same step.                *)
(***************************************************************************)
EXTENDS Integers, Sequences, FiniteSets, TLC

(***************************************************************************)
(* Bounds of the model.                                                    *)
(***************************************************************************)
\* number of producer goroutines
NumProducers == 2
\* the producers call Push at most Capacity + ExtraPushes times in all
ExtraPushes == 2
\* the ring has 2^RingN buckets (the Logger uses newRandRing(12))
RingN == 1

(***************************************************************************)
(* uint64 arithmetic.  TLC's integers are 32 bits wide, so the 64-bit      *)
(* words of the code are modelled 30 bits wide: the only overflow the      *)
(* ring performs is the first increment of writeIndex from ^0 to 0, and    *)
(* every other value stays below the number of pushes.                               *)
(***************************************************************************)
WordMod == 2^30

\* ^uint64(0)
MaxWord == WordMod - 1

\* a nil unsafe.Pointer
NoData == -1

\* zapcore levels, lowest first (DPanicLevel is removed in nanozap)
LevelOrder == <<"debug", "info", "warn", "error", "panic", "fatal">>

Levels == {LevelOrder[i] : i \in 1..Len(LevelOrder)}

Producers == 1..NumProducers

\* newRandRing: make([]unsafe.Pointer, 1<<n)
Capacity == 2^RingN

\* newRandRing: mask = (1 << n) - 1
Mask == Capacity - 1

\* total number of Push calls over all producers
MaxPushes == Capacity + ExtraPushes

\* x & r.mask, for a mask of the form 2^n - 1
BitAndMask(x) == x % (Mask + 1)

VARIABLES
    writeIndex,        \* Ring.writeIndex (shared, atomic)
    writeIndexCache,   \* Ring.writeIndexCache (consumer only)
    readIndex,         \* Ring.readIndex (consumer only)
    buckets,           \* Ring.buckets: bucket index -> tag of the logBody, or NoData
    prod,              \* per producer: where it is in Push, and Push's locals
    lvlOf,             \* lvlOf[t+1]: the level of the logBody with tag t
    frees,             \* frees[t+1]: how often logBody t was released to the pool
    evictedBy,         \* evictedBy[t+1]: tag of the push that evicted t, or NoData
    cpc,               \* where the consumer goroutine is
    cur,               \* the logBody the consumer holds, or NoData
    popLog,            \* history: tags returned by TryPop, in order
    lastPop,           \* history: what the last completed TryPop returned, and how
    quiet,             \* history of the calling pattern, see NotePush/NoteTryPop
    steps,             \* history: steps each producer has taken in its Push call
    maxSteps,          \* history: the most steps a Push call has taken so far
    enabled,           \* the levels the Logger's core has enabled
    cancelled,         \* Logger.loopCtx is cancelled
    closePc,           \* where the caller of Logger.Close is
    ce,                \* the CheckedEntry the drain loop holds
    coreWrites,        \* tags of the entries written to the core, in order
    terminal,          \* the terminal action that ended the process, if any
    heldAtCancel,      \* history: the buckets' events when writeLoop saw the cancellation
    sinkPc,            \* the life of the Rotation: "new", "ready", "failed", "closed"
    now,               \* time.Now(), in clock ticks
    rotation,          \* the fields of the Rotation struct
    disk,              \* the files of the log directory
    accepted,          \* history: bytes handed to Rotation.Write so far
    last,              \* history: what the last call on the Rotation did
    story,             \* history: the directory at New, and the rotations since
    lastCall,          \* history: the level of the last Logger call, and its logBody
    batch,             \* history: the pushes into an empty ring, and the TryPops after them
    cePool,            \* zapcore._cePool: how often each CheckedEntry is in the pool
    entries,           \* the fields of each CheckedEntry
    refs,              \* the *CheckedEntry each variable of the client holds, 0 for nil
    life,              \* history: acquisitions, releases and Write calls per CheckedEntry
    lastWrite,         \* history: what the CheckedEntry.Write that has just returned did
    made,              \* history: what the calls of the ring constructors returned
    bodies,            \* the logBody objects: their fields, and whether the pool has them
    lastGet,           \* history: what the last logBodyPool.get returned
    locker,            \* Rotation.locker: the thread that holds it, or 0
    thr                \* per thread: where it is in Write or Sync, and the call's locals

ringCore == <<writeIndex, writeIndexCache, readIndex, buckets>>

\* history of the calls, kept by the claims about the Ring on its own
hist == <<popLog, lastPop, quiet, steps, maxSteps, lastCall, batch>>

\* the history that the Logger's methods leave alone
ringHist == <<popLog, lastPop, quiet, steps, maxSteps, batch>>

ringVars == <<ringCore, prod, lvlOf, frees, evictedBy, cpc, cur>>

logVars == <<enabled, cancelled, closePc, ce, coreWrites, terminal, heldAtCancel>>

sinkVars == <<sinkPc, now, rotation, disk, accepted, last, story>>

poolVars == <<bodies, lastGet>>

lockVars == <<locker, thr>>

apiVars == <<cePool, entries, refs, life, lastWrite, made, poolVars, lockVars>>

restVars == <<sinkVars, apiVars>>

vars == <<ringVars, hist, logVars, sinkVars, apiVars>>

(***************************************************************************)
(* History of the calling pattern (not program state).                     *)
(*   seq      the pushes so far ran one after the other and no TryPop step *)
(*            ran between the first push and the end of push Capacity+1    *)
(*   clean    no Push began since the running TryPop call began            *)
(*   drained  the last TryPop call returned none, it began when every      *)
(*            producer had finished, and no Push began since               *)
(***************************************************************************)
IdleProducer == [pc |-> "idle", idx |-> 0, data |-> NoData, old |-> NoData]

Max(a, b) == IF a >= b THEN a ELSE b

AllIdle == \A p \in DOMAIN prod : prod[p].pc = "idle"

PushCount == Len(lvlOf)

NotePush(p) ==
    quiet' = [seq |-> quiet.seq /\ AllIdle, clean |-> FALSE, drained |-> FALSE]

\* a step of TryPop: first, it is the first step of its call; none, the call
\* ends with it and returns nil, false
NoteTryPop(first, none) ==
    quiet' = [seq |-> quiet.seq /\ AllIdle /\ (PushCount = 0 \/ PushCount > Capacity),
              clean |-> IF first THEN AllIdle ELSE quiet.clean,
              drained |-> none /\ (IF first THEN AllIdle ELSE quiet.clean)]

\* producer p takes a step of Push
CountStep(p) ==
    /\ steps' = [steps EXCEPT ![p] = IF prod'[p].pc = "idle" THEN 0 ELSE @ + 1]
    /\ maxSteps' = Max(maxSteps, steps[p] + 1)

(***************************************************************************)
(* Ring.Push, src/randring.go:68-75.                                       *)
(***************************************************************************)
\* idx := atomic.AddUint64(&r.writeIndex, 1) & r.mask, for a new logBody
\* of level lvl; the tag of the logBody is the number of earlier pushes
PushAdd(p, lvl) ==
    /\ prod[p].pc = "idle"
    /\ writeIndex' = (writeIndex + 1) % WordMod
    /\ prod' = [prod EXCEPT ![p] = [pc |-> "claimed",
                                    idx |-> BitAndMask((writeIndex + 1) % WordMod),
                                    data |-> PushCount,
                                    old |-> NoData]]
    /\ lvlOf' = Append(lvlOf, lvl)
    /\ frees' = Append(frees, 0)
    /\ evictedBy' = Append(evictedBy, NoData)
    /\ UNCHANGED <<writeIndexCache, readIndex, buckets, cpc, cur>>
    /\ UNCHANGED <<logVars, restVars>>

\* mutant of PushSwap: a full bucket keeps its event and the new one is dropped
PushSwapDropNewest(p) ==
    /\ prod[p].pc = "claimed"
    /\ buckets' = IF buckets[prod[p].idx] # NoData
                  THEN buckets
                  ELSE [buckets EXCEPT ![prod[p].idx] = prod[p].data]
    /\ prod' = [prod EXCEPT ![p] =
                  IF buckets[prod[p].idx] # NoData
                  THEN [@ EXCEPT !.pc = "evict", !.old = prod[p].data]
                  ELSE IdleProducer]
    /\ UNCHANGED <<writeIndex, writeIndexCache, readIndex, lvlOf, frees, evictedBy,
                   cpc, cur>>
    /\ UNCHANGED <<logVars, restVars>>

\* mutant of PushSwap: the producer waits until the consumer has emptied the bucket
PushSwapWhenFree(p) ==
    /\ prod[p].pc = "claimed"
    /\ buckets[prod[p].idx] = NoData
    /\ buckets' = [buckets EXCEPT ![prod[p].idx] = prod[p].data]
    /\ prod' = [prod EXCEPT ![p] = IdleProducer]
    /\ UNCHANGED <<writeIndex, writeIndexCache, readIndex, lvlOf, frees, evictedBy,
                   cpc, cur>>
    /\ UNCHANGED <<logVars, restVars>>

\* old := atomic.SwapPointer(&r.buckets[idx], data); if old != nil { ... }
PushSwap(p) ==
    /\ prod[p].pc = "claimed"
    /\ buckets' = [buckets EXCEPT ![prod[p].idx] = prod[p].data]
    /\ prod' = [prod EXCEPT ![p] =
                  IF buckets[prod[p].idx] # NoData
                  THEN [@ EXCEPT !.pc = "evict", !.old = buckets[prod[p].idx]]
                  ELSE IdleProducer]
    /\ UNCHANGED <<writeIndex, writeIndexCache, readIndex, lvlOf, frees, evictedBy,
                   cpc, cur>>
    /\ UNCHANGED <<logVars, restVars>>

\* lb := (*logBody)(old); lb.free()
PushFree(p) ==
    /\ prod[p].pc = "evict"
    /\ frees' = [frees EXCEPT ![prod[p].old + 1] = @ + 1]
    /\ evictedBy' = [evictedBy EXCEPT ![prod[p].old + 1] = prod[p].data]
    /\ prod' = [prod EXCEPT ![p] = IdleProducer]
    /\ UNCHANGED <<writeIndex, writeIndexCache, readIndex, buckets, lvlOf,
                   cpc, cur>>
    /\ UNCHANGED <<logVars, restVars>>

(***************************************************************************)
(* Ring.TryPop, src/randring.go:79-97.  retOk and retNone are the places   *)
(* the caller continues at.                                                *)
(***************************************************************************)
\* r.readIndex >= r.writeIndexCache
CacheExhausted(r, w) == r >= w

\* if r.readIndex >= r.writeIndexCache {
\*     r.writeIndexCache = atomic.LoadUint64(&r.writeIndex)
\*     if r.readIndex >= r.writeIndexCache { return nil, false } }
TryPopRefresh(retNone) ==
    /\ cpc = "pop"
    /\ CacheExhausted(readIndex, writeIndexCache)
    /\ writeIndexCache' = writeIndex
    /\ cpc' = IF CacheExhausted(readIndex, writeIndex) THEN retNone ELSE "swap"
    /\ UNCHANGED <<writeIndex, readIndex, buckets, prod, lvlOf, frees, evictedBy, cur>>
    /\ UNCHANGED <<logVars, restVars>>

RingEmpty == \A i \in DOMAIN buckets : buckets[i] = NoData

\* mutant of TryPopSwap: the bucket is read with a load and is not emptied
TryPopLoad(retOk, retNone) ==
    /\ \/ cpc = "swap"
       \/ cpc = "pop" /\ ~CacheExhausted(readIndex, writeIndexCache)
    /\ LET idx == BitAndMask(readIndex)
           data == buckets[idx]
       IN  /\ buckets' = buckets
           /\ IF data = NoData
              THEN /\ cpc' = retNone
                   /\ UNCHANGED <<readIndex, cur>>
              ELSE /\ cpc' = retOk
                   /\ readIndex' = (readIndex + 1) % WordMod
                   /\ cur' = data
    /\ UNCHANGED <<writeIndex, writeIndexCache, prod, lvlOf, frees, evictedBy>>
    /\ UNCHANGED <<logVars, restVars>>

\* idx := r.readIndex & r.mask
\* data := atomic.SwapPointer(&r.buckets[idx], nil)
\* if data == nil { return nil, false }; r.readIndex++; return data, true
TryPopSwap(retOk, retNone) ==
    /\ \/ cpc = "swap"
       \/ cpc = "pop" /\ ~CacheExhausted(readIndex, writeIndexCache)
    /\ LET idx == BitAndMask(readIndex)
           data == buckets[idx]
       IN  /\ buckets' = [buckets EXCEPT ![idx] = NoData]
           /\ IF data = NoData
              THEN /\ cpc' = retNone
                   /\ UNCHANGED <<readIndex, cur>>
              ELSE /\ cpc' = retOk
                   /\ readIndex' = (readIndex + 1) % WordMod
                   /\ cur' = data
    /\ UNCHANGED <<writeIndex, writeIndexCache, prod, lvlOf, frees, evictedBy>>
    /\ UNCHANGED <<logVars, restVars>>

(***************************************************************************)
(* The Ring on its own: producers that call Push, and one consumer that    *)
(* calls TryPop again and again.                                           *)
(***************************************************************************)
\* newRandRing, src/randring.go:52-65
RingInit ==
    /\ writeIndex = MaxWord
    /\ writeIndexCache = 0
    /\ readIndex = 0
    /\ buckets = [i \in 0..(Capacity - 1) |-> NoData]

NilEntry == [nil |-> TRUE, cores |-> <<>>, should |-> "noop", dirty |-> FALSE]

NoTerminal == [action |-> "noop", by |-> "nobody", tag |-> NoData]

\* a Rotation with nothing written: no file, an empty buffer, no backup
NewRotation == [f |-> 0, bufN |-> 0, written |-> 0, dirty |-> 0, synced |-> 0, bs |-> <<>>]

\* no call on the Rotation yet
NoCall ==
    [op |-> "none", n |-> 0, fw |-> 0, checked |-> FALSE, hinted |-> FALSE,
     atCheck |-> 0, opens |-> 0, openErr |-> "none", err |-> "nil",
     at |-> 0, renamedTo |-> NoData, collided |-> FALSE, renamedF |-> 0, oldF |-> 0,
     since |-> 0, afterFailure |-> FALSE]

\* no directory looked at, no rotation done, no file system error met
NoStory ==
    [pre |-> {}, hadLog |-> FALSE, preLen |-> 0, made |-> <<>>, clean |-> TRUE,
     landed |-> 0, failed |-> FALSE]

\* a new ring: it is empty, nothing was pushed, no TryPop was called
NoBatch == [first |-> 0, n |-> 0, tries |-> <<>>, ok |-> TRUE]

\* no Logger method called yet
NoLogCall == [lvl |-> "none", tag |-> NoData]

\* the call that has just returned was not a CheckedEntry.Write
NoWrite ==
    [by |-> "nobody", ref |-> 0, again |-> FALSE, cores |-> <<>>, should |-> "noop",
     errs |-> <<>>, events |-> <<>>, lvl |-> "none"]

\* what the pool's New function returns
CleanBody == [lvl |-> "info", msg |-> "", reqid |-> ""]

\* no logBodyPool.get yet
NoGet == [obj |-> 0, fresh |-> TRUE, was |-> CleanBody, got |-> CleanBody]

\* a program that takes no logBody by hand
NoPool ==
    /\ bodies = <<>>
    /\ lastGet = NoGet

\* a program without threads that share a Rotation
NoThreads ==
    /\ locker = 0
    /\ thr = <<>>

\* a program that takes no CheckedEntry and calls newRandRing nowhere but in New
NoApi ==
    /\ NoPool
    /\ NoThreads
    /\ cePool = <<>>
    /\ entries = <<>>
    /\ refs = <<>>
    /\ life = <<>>
    /\ lastWrite = NoWrite
    /\ made = {}

\* a program that constructs no Rotation
NoSink ==
    /\ sinkPc = "none"
    /\ now = 0
    /\ rotation = NewRotation
    /\ disk = [live |-> 0, bk |-> <<>>, other |-> {}, inodes |-> <<>>]
    /\ accepted = 0
    /\ last = NoCall
    /\ story = NoStory

\* the state of the goroutines and of the history, before any call;
\* P is the set of the producers
Idle(P) ==
    /\ prod = [p \in P |-> IdleProducer]
    /\ lvlOf = <<>>
    /\ frees = <<>>
    /\ evictedBy = <<>>
    /\ cur = NoData
    /\ popLog = <<>>
    /\ lastPop = [ok |-> FALSE, data |-> NoData, empty |-> TRUE, bySlot |-> FALSE,
                  idle |-> TRUE]
    /\ quiet = [seq |-> TRUE, clean |-> TRUE, drained |-> FALSE]
    /\ steps = [p \in P |-> 0]
    /\ maxSteps = 0
    /\ lastCall = NoLogCall
    /\ batch = NoBatch
    /\ cancelled = FALSE
    /\ closePc = "none"
    /\ ce = NilEntry
    /\ coreWrites = <<>>
    /\ terminal = NoTerminal
    /\ heldAtCancel = {}

Init ==
    /\ RingInit
    /\ Idle(Producers)
    /\ cpc = "pop"
    /\ enabled = Levels
    /\ NoSink
    /\ NoApi

\* a producer calls Ring.Push
RingPush(p) ==
    /\ PushCount < MaxPushes
    /\ PushAdd(p, "info")
    /\ NotePush(p)
    /\ CountStep(p)
    /\ UNCHANGED <<popLog, lastPop, lastCall, batch>>

RingPushSwap(p) ==
    PushSwap(p) /\ CountStep(p) /\ UNCHANGED <<popLog, lastPop, quiet, lastCall, batch>>

RingPushFree(p) ==
    PushFree(p) /\ CountStep(p) /\ UNCHANGED <<popLog, lastPop, quiet, lastCall, batch>>

\* the consumer calls Ring.TryPop, and calls it again when it has returned
RingTryPopRefresh ==
    /\ TryPopRefresh("pop")
    /\ NoteTryPop(TRUE, cpc' = "pop")
    /\ lastPop' = IF cpc' = "pop"
                  THEN [ok |-> FALSE, data |-> NoData, empty |-> FALSE, bySlot |-> FALSE,
                        idle |-> AllIdle]
                  ELSE lastPop
    /\ UNCHANGED <<popLog, steps, maxSteps, lastCall, batch>>

RingTryPopSwap ==
    /\ TryPopSwap("pop", "pop")
    /\ LET ok == readIndex' # readIndex
       IN  /\ NoteTryPop(cpc = "pop", ~ok)
           /\ lastPop' = [ok |-> ok, data |-> IF ok THEN cur' ELSE NoData,
                          empty |-> RingEmpty, bySlot |-> TRUE, idle |-> AllIdle]
           /\ popLog' = IF ok THEN Append(popLog, cur') ELSE popLog
    /\ UNCHANGED <<steps, maxSteps, lastCall, batch>>

Next ==
    \/ \E p \in Producers : RingPush(p)
    \/ \E p \in Producers : RingPushSwap(p)
    \/ \E p \in Producers : RingPushFree(p)
    \/ RingTryPopRefresh
    \/ RingTryPopSwap

Spec == Init /\ [][Next]_vars

(***************************************************************************)
(* Claims about the Ring, checked under Spec.                              *)
(***************************************************************************)
PoppedTags == {popLog[i] : i \in 1..Len(popLog)}

PushedTags == 0..(PushCount - 1)

NoDuplicatePop == \A i, j \in 1..Len(popLog) : i # j => popLog[i] # popLog[j]

\* C1: when the producers pushed no more events than the ring has buckets,
\* all of them have finished, and a TryPop call that began after that has
\* returned none, the consumer has observed every pushed tag exactly once
\* and no other tag.
C1_AllTagsObserved ==
    (quiet.drained /\ AllIdle /\ PushCount <= Capacity)
        => (PoppedTags = PushedTags /\ NoDuplicatePop)

\* the values Capacity, 1, 2, .., Capacity-1: what is left in the buckets,
\* in bucket order, after the values 0..Capacity were pushed in order
LastInSlotOrder == [i \in 1..Capacity |-> IF i = 1 THEN Capacity ELSE i - 1]

\* C2: after Capacity+1 pushes that ran one after the other with no TryPop
\* step in between, draining until TryPop returns none yields the values
\* Capacity, 1, .., Capacity-1 in this order, and the value 0 was released
\* to the pool, once, by the push of the value Capacity.
C2_OverwriteKeepsLast ==
    (quiet.seq /\ quiet.drained /\ PushCount = Capacity + 1)
        => /\ popLog = LastInSlotOrder
           /\ frees[1] = 1
           /\ evictedBy[1] = Capacity

C2_Witness ==
    /\ quiet.seq /\ quiet.drained /\ PushCount = Capacity + 1
    /\ Len(popLog) = Capacity
    /\ frees[1] = 1

\* C3: a TryPop that finds no bucket holding an event returns none, and
\* TryPop never returns an event twice, an event that was not pushed, or an
\* event that was released to the pool.
C3_NoPhantomPop ==
    /\ lastPop.empty => (~lastPop.ok /\ lastPop.data = NoData)
    /\ NoDuplicatePop
    /\ PoppedTags \subseteq PushedTags
    /\ \A t \in PoppedTags : frees[t + 1] = 0

\* an emptied ring: events were pushed, popped and evicted, and the TryPop
\* that followed found nothing
C3_Witness ==
    /\ lastPop.empty /\ ~lastPop.ok
    /\ Len(popLog) >= 1
    /\ \E t \in PushedTags : frees[t + 1] = 1
    /\ AllIdle

\* C4: a producer inside Push can always take its next step, whatever the
\* other producers and the consumer do and whatever the buckets hold, and
\* no Push call takes more than three steps.
C4_PushWaitFree ==
    /\ \A p \in Producers :
          /\ prod[p].pc = "claimed" => ENABLED PushSwap(p)
          /\ prod[p].pc = "evict" => ENABLED PushFree(p)
    /\ maxSteps <= 3

\* a producer about to store into a full ring, after more than Capacity pushes
C4_Witness ==
    /\ \E p \in Producers : prod[p].pc = "claimed"
    /\ \A i \in DOMAIN buckets : buckets[i] # NoData
    /\ PushCount > Capacity
    /\ maxSteps = 3

\* the last TryPop call swapped its bucket, got nil and returned nil, false
FoundSlotEmpty == lastPop.bySlot /\ ~lastPop.ok

\* C23: when TryPop has found its bucket empty and returned none, and no
\* Push was running then, no bucket of the ring held an event; also after
\* more pushes than the ring has buckets, and after the ring was drained
C23_EmptySlotMeansEmptyRing ==
    (FoundSlotEmpty /\ lastPop.idle) => lastPop.empty

\* C25: in every state of the Ring readIndex is at most writeIndex,
\* writeIndexCache is at most writeIndex, and every bucket is nil or holds
\* one pushed event, which no other bucket holds
C25_CursorsOrdered ==
    /\ readIndex <= writeIndex
    /\ writeIndexCache <= writeIndex
    /\ \A i \in DOMAIN buckets :
          \/ buckets[i] = NoData
          \/ /\ buckets[i] \in PushedTags
             /\ \A j \in DOMAIN buckets : buckets[j] = buckets[i] => j = i

(***************************************************************************)
(* The ring of src/internal/randring/randring.go: Push stores into the     *)
(* bucket without looking at what it held, and TryPop refreshes its cache  *)
(* when readIndex is above it.                                             *)
(***************************************************************************)
\* the consumer is between two TryPop calls
BetweenPops == cpc = "pop"

\* history, at the first step of a Push: a Push that finds the ring empty
\* and nobody inside a call begins a batch; a Push after a finished one,
\* with no TryPop since the batch began, extends it; any other Push, and any
\* TryPop step taken while a Push is running, spoils the batch
BatchPush ==
    batch' = IF RingEmpty /\ AllIdle /\ BetweenPops
             THEN [first |-> PushCount, n |-> 1, tries |-> <<>>, ok |-> TRUE]
             ELSE IF batch.ok /\ AllIdle /\ BetweenPops /\ batch.tries = <<>>
                  THEN [batch EXCEPT !.n = @ + 1]
                  ELSE [batch EXCEPT !.ok = FALSE]

\* history, at a step of TryPop: ret tells whether the call returns with
\* this step, and then ok and data are what it returns; the calls after
\* the one that follows the batch are not kept
BatchTryPop(ret, ok, data) ==
    batch' = IF ~AllIdle
             THEN [batch EXCEPT !.ok = FALSE]
             ELSE IF ret /\ batch.ok /\ Len(batch.tries) <= batch.n
                  THEN [batch EXCEPT !.tries = Append(@, [ok |-> ok, data |-> data])]
                  ELSE batch

\* ring.Push: idx := atomic.AddUint64(&r.writeIndex, 1) & r.mask
ringPushAdd(p) ==
    /\ PushCount < MaxPushes
    /\ PushAdd(p, "info")
    /\ BatchPush
    /\ UNCHANGED <<popLog, lastPop, quiet, steps, maxSteps, lastCall>>

\* ring.Push: atomic.StorePointer(&r.buckets[idx].data, data)
ringPushStore(p) ==
    /\ prod[p].pc = "claimed"
    /\ buckets' = [buckets EXCEPT ![prod[p].idx] = prod[p].data]
    /\ prod' = [prod EXCEPT ![p] = IdleProducer]
    /\ UNCHANGED <<writeIndex, writeIndexCache, readIndex, lvlOf, frees, evictedBy, cpc, cur>>
    /\ UNCHANGED <<hist, logVars, restVars>>

\* r.readIndex > r.writeIndexCache
CacheBehind(r, w) == r > w

\* if r.readIndex > r.writeIndexCache {
\*     r.writeIndexCache = atomic.LoadUint64(&r.writeIndex)
\*     if r.readIndex > r.writeIndexCache { return nil, false } }
ringTryPopRefresh ==
    /\ cpc = "pop"
    /\ CacheBehind(readIndex, writeIndexCache)
    /\ writeIndexCache' = writeIndex
    /\ cpc' = IF CacheBehind(readIndex, writeIndex) THEN "pop" ELSE "swap"
    /\ BatchTryPop(cpc' = "pop", FALSE, NoData)
    /\ UNCHANGED <<writeIndex, readIndex, buckets, prod, lvlOf, frees, evictedBy, cur>>
    /\ UNCHANGED <<popLog, lastPop, quiet, steps, maxSteps, lastCall>>
    /\ UNCHANGED <<logVars, restVars>>

\* idx := r.readIndex & r.mask
\* data := atomic.SwapPointer(&r.buckets[idx].data, nil)
\* if data == nil { return nil, false }; r.readIndex++; return data, true
ringTryPopSwap ==
    /\ \/ cpc = "swap"
       \/ cpc = "pop" /\ ~CacheBehind(readIndex, writeIndexCache)
    /\ \E idx \in {BitAndMask(readIndex)} : \E data \in {buckets[idx]} :
          /\ buckets' = [buckets EXCEPT ![idx] = NoData]
          /\ readIndex' = IF data = NoData THEN readIndex ELSE (readIndex + 1) % WordMod
          /\ cur' = IF data = NoData THEN cur ELSE data
          /\ BatchTryPop(TRUE, data # NoData, data)
    /\ cpc' = "pop"
    /\ UNCHANGED <<writeIndex, writeIndexCache, prod, lvlOf, frees, evictedBy>>
    /\ UNCHANGED <<popLog, lastPop, quiet, steps, maxSteps, lastCall>>
    /\ UNCHANGED <<logVars, restVars>>

\* producers that call ring.Push, and one consumer that calls ring.TryPop
\* again and again, on a ring from New
ringNext ==
    \/ \E p \in Producers : ringPushAdd(p)
    \/ \E p \in Producers : ringPushStore(p)
    \/ ringTryPopRefresh
    \/ ringTryPopSwap

SpecInternal == Init /\ [][ringNext]_vars

(***************************************************************************)
(* Claims about the internal ring, checked under SpecInternal.             *)
(***************************************************************************)
\* the pushes of the batch ran one after the other into a ring that was
\* empty, and the TryPop calls came after them, one after the other
Sequential == batch.ok

\* C21: after k <= Capacity events are pushed one after the other into an
\* empty ring, the first k TryPop calls return ok and the events in the
\* order they were pushed, and the TryPop call after them returns not ok
C21_PopsInPushOrder ==
    (Sequential /\ batch.n <= Capacity) =>
        \A i \in 1..Len(batch.tries) :
            IF i <= batch.n
            THEN batch.tries[i] = [ok |-> TRUE, data |-> batch.first + i - 1]
            ELSE ~batch.tries[i].ok

\* the events the buckets hold
SlotTags == {buckets[i] : i \in DOMAIN buckets} \ {NoData}

\* the events an overwriting Push released to the pool
EvictedTags == {t \in PushedTags : evictedBy[t + 1] # NoData}

\* the number of releases to the pool
RECURSIVE SumFrees(_)
SumFrees(n) == IF n = 0 THEN 0 ELSE frees[n] + SumFrees(n - 1)

\* C31 (checked under Spec): with no Push and no TryPop in progress, the
\* events pushed are those TryPop returned, those an overwriting Push
\* released and those in the buckets, each of them in one of the three and
\* counted once; nothing else is ever returned, released or held.
C31_Conservation ==
    (AllIdle /\ BetweenPops) =>
        /\ PushCount = Len(popLog) + SumFrees(Len(frees))
                       + Cardinality({i \in DOMAIN buckets : buckets[i] # NoData})
        /\ PushedTags = PoppedTags \cup EvictedTags \cup SlotTags
        /\ PoppedTags \cap EvictedTags = {}
        /\ PoppedTags \cap SlotTags = {}
        /\ EvictedTags \cap SlotTags = {}
        /\ \A t \in PushedTags : frees[t + 1] = IF t \in EvictedTags THEN 1 ELSE 0

\* nobody is inside a call, and of the events pushed one was returned, one
\* was released by an overwriting Push and one is in a bucket
C31_Witness ==
    /\ AllIdle
    /\ BetweenPops
    /\ PoppedTags # {}
    /\ EvictedTags # {}
    /\ SlotTags # {}

(***************************************************************************)
(* The Logger, src/nanozap.go:312-533, its core, and the CheckedEntry of   *)
(* src/zapcore/entry.go.                                                   *)
(***************************************************************************)
\* number of goroutines that call the Logger's level methods
NumCallers == 1
\* the level methods are called at most MaxLogCalls times in all
MaxLogCalls == 3

Callers == 1..NumCallers

\* the level methods the callers use: Debug, Info, Panic and Fatal.  Warn
\* and Error (nanozap.go:428-450) have the body of Info but for the level.
CallLevels == {"debug", "info", "panic", "fatal"}

\* the levels at or above the i-th one; none for i = Len(LevelOrder) + 1
LevelsFrom(i) == {LevelOrder[j] : j \in i..Len(LevelOrder)}

\* Core.Enabled
CoreEnabled(lvl) == lvl \in enabled

\* getCheckedEntry: a handle from the pool, reset
GetCheckedEntry == [nil |-> FALSE, cores |-> <<>>, should |-> "noop", dirty |-> FALSE]

\* CheckedEntry.AddCore
AddCore(e, core) ==
    LET e1 == IF e.nil THEN GetCheckedEntry ELSE e
    IN  [e1 EXCEPT !.cores = Append(@, core)]

\* mutant of Should: a nil handle stays nil
ShouldKeepsNil(e, should) == IF e.nil THEN e ELSE [e EXCEPT !.should = should]

\* CheckedEntry.Should
Should(e, should) ==
    LET e1 == IF e.nil THEN GetCheckedEntry ELSE e
    IN  [e1 EXCEPT !.should = should]

\* Core.Check of the one core of the Logger: the core adds itself when it
\* has the level enabled
CoreCheck(lvl, e) == IF CoreEnabled(lvl) THEN AddCore(e, "core") ELSE e

\* mutant of LoggerCheck: the switch has a default case that calls
\* ce.Should(ent, WriteThenNoop), so every event gets a handle
LoggerCheckAlwaysHandle(lvl) ==
    LET e == CoreCheck(lvl, NilEntry)
    IN  CASE lvl = "panic" -> Should(e, "panic")
          [] lvl = "fatal" -> Should(e, "fatal")
          [] OTHER -> Should(e, "noop")

\* Logger.check
LoggerCheck(lvl) ==
    LET e == CoreCheck(lvl, NilEntry)
    IN  CASE lvl = "panic" -> Should(e, "panic")
          [] lvl = "fatal" -> Should(e, "fatal")
          [] OTHER -> e

\* mutant of LogCall: Panic and Fatal run the terminal action in the caller
LogCallSync(p, lvl) ==
    IF lvl \in {"panic", "fatal"}
    THEN /\ prod[p].pc = "idle"
         /\ terminal' = [action |-> lvl, by |-> "caller", tag |-> NoData]
         /\ UNCHANGED <<ringVars, hist, enabled, restVars, cancelled, closePc, ce, coreWrites,
                        heldAtCancel>>
    ELSE PushAdd(p, lvl) /\ UNCHANGED hist

\* mutant of LogCall: every method returns at once when the core has its
\* level disabled
LogCallGated(p, lvl) ==
    IF ~CoreEnabled(lvl)
    THEN /\ prod[p].pc = "idle"
         /\ lastCall' = [lvl |-> lvl, tag |-> NoData]
         /\ UNCHANGED <<ringVars, ringHist, logVars, restVars>>
    ELSE /\ PushAdd(p, lvl)
         /\ lastCall' = [lvl |-> lvl, tag |-> PushCount]
         /\ UNCHANGED ringHist

\* Logger.Debug .. Logger.Fatal (and Debugf .. Fatalf): Debug returns at once
\* when the core has DebugLevel disabled; every method ends in Ring.Push
LogCall(p, lvl) ==
    IF lvl = "debug" /\ ~CoreEnabled("debug")
    THEN /\ prod[p].pc = "idle"
         /\ lastCall' = [lvl |-> lvl, tag |-> NoData]
         /\ UNCHANGED <<ringVars, ringHist, logVars, restVars>>
    ELSE /\ PushAdd(p, lvl)
         /\ lastCall' = [lvl |-> lvl, tag |-> PushCount]
         /\ UNCHANGED ringHist

\* mutant of LoopTop: a cancelled loop exits only once TryPop finds nothing
LoopTopDrains ==
    /\ cpc = "top"
    /\ cpc' = IF cancelled /\ RingEmpty THEN "exited" ELSE "pop"
    /\ heldAtCancel' = IF cancelled
                       THEN {buckets[i] : i \in DOMAIN buckets} \ {NoData}
                       ELSE heldAtCancel
    /\ UNCHANGED <<ringCore, prod, lvlOf, frees, evictedBy, cur, hist>>
    /\ UNCHANGED <<enabled, restVars, cancelled, closePc, ce, coreWrites, terminal>>

\* writeLoop: select { case <-ctx.Done(): return; default: ... }
LoopTop ==
    /\ cpc = "top"
    /\ cpc' = IF cancelled THEN "exited" ELSE "pop"
    /\ heldAtCancel' = IF cancelled
                     THEN {buckets[i] : i \in DOMAIN buckets} \ {NoData}
                     ELSE heldAtCancel
    /\ UNCHANGED <<ringCore, prod, lvlOf, frees, evictedBy, cur, hist>>
    /\ UNCHANGED <<enabled, restVars, cancelled, closePc, ce, coreWrites, terminal>>

\* writeLoop: b, ok := log.ring.TryPop(); if !ok { time.Sleep(..); continue }
LoopTryPopRefresh == TryPopRefresh("top") /\ UNCHANGED hist

LoopTryPopSwap == TryPopSwap("check", "top") /\ UNCHANGED hist

\* writeLoop: if ce := log.check(lb.lvl, lb.msg, lb.reqid); ce != nil { ... }
LoopCheck ==
    /\ cpc = "check"
    /\ ce' = LoggerCheck(lvlOf[cur + 1])
    /\ cpc' = IF LoggerCheck(lvlOf[cur + 1]).nil THEN "free" ELSE "write"
    /\ UNCHANGED <<ringCore, prod, lvlOf, frees, evictedBy, cur, hist>>
    /\ UNCHANGED <<enabled, restVars, cancelled, closePc, coreWrites, terminal, heldAtCancel>>

\* CheckedEntry.Write up to putCheckedEntry: the entry goes to every core
\* of the handle, in order; a handle already written is left alone
EntryWriteCores ==
    /\ cpc = "write"
    /\ IF ce.dirty
       THEN /\ cpc' = "free"
            /\ UNCHANGED <<ce, coreWrites>>
       ELSE /\ ce' = [ce EXCEPT !.dirty = TRUE]
            /\ coreWrites' = coreWrites \o [i \in 1..Len(ce.cores) |-> cur]
            /\ cpc' = IF ce.should = "noop" THEN "free" ELSE "terminal"
    /\ UNCHANGED <<ringCore, prod, lvlOf, frees, evictedBy, cur, hist>>
    /\ UNCHANGED <<enabled, restVars, cancelled, closePc, terminal, heldAtCancel>>

\* CheckedEntry.Write: switch should { case WriteThenPanic: panic(msg)
\* case WriteThenFatal: os.Exit(1) }.  Either ends the process: the panic
\* is raised on the drain goroutine, where nothing recovers it.
EntryTerminal ==
    /\ cpc = "terminal"
    /\ terminal' = [action |-> ce.should, by |-> "drain", tag |-> cur]
    /\ UNCHANGED <<ringVars, hist, enabled, restVars>>
    /\ UNCHANGED <<cancelled, closePc, ce, coreWrites, heldAtCancel>>

\* writeLoop: lb.free()
LoopFree ==
    /\ cpc = "free"
    /\ frees' = [frees EXCEPT ![cur + 1] = @ + 1]
    /\ cur' = NoData
    /\ ce' = NilEntry
    /\ cpc' = "top"
    /\ UNCHANGED <<ringCore, prod, lvlOf, evictedBy, hist>>
    /\ UNCHANGED <<enabled, restVars, cancelled, closePc, coreWrites, terminal, heldAtCancel>>

\* Logger.Close -> stopLoop: log.loopCancel()
CloseCancel ==
    /\ closePc = "none"
    /\ cancelled' = TRUE
    /\ closePc' = "waiting"
    /\ UNCHANGED <<ringVars, hist, enabled, restVars, ce, coreWrites, terminal, heldAtCancel>>

\* mutant of CloseWait: stopLoop does not wait for writeLoop
CloseNoWait ==
    /\ closePc = "waiting"
    /\ closePc' = "returned"
    /\ UNCHANGED <<ringVars, hist, enabled, restVars>>
    /\ UNCHANGED <<cancelled, ce, coreWrites, terminal, heldAtCancel>>

\* stopLoop: log.loopWg.Wait() returns once writeLoop has run its deferred
\* loopWg.Done()
CloseWait ==
    /\ closePc = "waiting"
    /\ cpc = "exited"
    /\ closePc' = "returned"
    /\ UNCHANGED <<ringVars, hist, enabled, restVars>>
    /\ UNCHANGED <<cancelled, ce, coreWrites, terminal, heldAtCancel>>

\* New: a ring, a core with some level threshold, and the drain goroutine
\* about to run writeLoop
LoggerInit ==
    /\ RingInit
    /\ Idle(Callers)
    /\ cpc = "top"
    /\ enabled \in {LevelsFrom(i) : i \in 1..(Len(LevelOrder) + 1)}
    /\ NoSink
    /\ NoApi

\* a terminal action ends the process: no goroutine takes another step
Alive == terminal.action = "noop"

\* one step of the drain goroutine
DrainStep ==
    \/ Alive /\ LoopTop
    \/ Alive /\ LoopTryPopRefresh
    \/ Alive /\ LoopTryPopSwap
    \/ Alive /\ LoopCheck
    \/ Alive /\ EntryWriteCores
    \/ Alive /\ EntryTerminal
    \/ Alive /\ LoopFree

\* one step of a goroutine that is inside Ring.Push
PushStep ==
    \/ \E p \in Callers : Alive /\ PushSwap(p) /\ UNCHANGED hist
    \/ \E p \in Callers : Alive /\ PushFree(p) /\ UNCHANGED hist

LoggerNext ==
    \/ \E p \in Callers, lvl \in CallLevels :
          Alive /\ PushCount < MaxLogCalls /\ LogCall(p, lvl)
    \/ PushStep
    \/ DrainStep
    \/ Alive /\ CloseCancel
    \/ Alive /\ CloseWait

SpecLogger == LoggerInit /\ [][LoggerNext]_vars

\* the Go scheduler runs every goroutine that can run: the drain goroutine,
\* a goroutine inside Push, and the goroutine waiting in Close.  Nothing
\* makes the program log again or call Close.
SpecLoggerFair ==
    /\ SpecLogger
    /\ WF_vars(DrainStep)
    /\ WF_vars(PushStep)
    /\ WF_vars(Alive /\ CloseWait)

(***************************************************************************)
(* Claims about the Logger, checked under SpecLogger and SpecLoggerFair.   *)
(***************************************************************************)
WrittenTags == {coreWrites[i] : i \in 1..Len(coreWrites)}

Terminating == {"panic", "fatal"}

\* C5: a terminal action is run by the drain goroutine only, for the Panic
\* or Fatal event that TryPop handed to it and that it holds, and after the
\* entry was written to the core when the core accepts the level; no step
\* of a caller of Panic or Fatal runs it.
C5_TerminalOnDrainAfterWrite ==
    terminal.action # "noop" =>
        /\ terminal.by = "drain"
        /\ cur # NoData /\ terminal.tag = cur
        /\ \A i \in DOMAIN buckets : buckets[i] # terminal.tag
        /\ lvlOf[terminal.tag + 1] \in Terminating
        /\ terminal.action = lvlOf[terminal.tag + 1]
        /\ CoreEnabled(lvlOf[terminal.tag + 1]) => terminal.tag \in WrittenTags

\* Fatal has returned to its caller, and later the drain goroutine wrote
\* the entry and exited the process
C5_Witness ==
    /\ terminal.action = "fatal" /\ terminal.by = "drain"
    /\ AllIdle
    /\ terminal.tag \in WrittenTags

\* a Panic or Fatal call has returned
FatalReturned ==
    \E t \in PushedTags :
        /\ lvlOf[t + 1] \in Terminating
        /\ \A p \in DOMAIN prod : prod[p].data # t

\* a Push has replaced an event that was not popped
Overflowed ==
    \/ \E t \in PushedTags : evictedBy[t + 1] # NoData
    \/ \E p \in DOMAIN prod : prod[p].pc = "evict"

\* C6: once a Panic or Fatal call has returned, the terminal action is
\* eventually run, unless Close is called or the ring overflows.
C6_TerminalEventually ==
    FatalReturned ~> (terminal.action # "noop" \/ closePc # "none" \/ Overflowed)

\* C7: a Panic or Fatal event whose level the core has disabled still gets
\* a handle, with no core and with the terminal action of its level; the
\* drain loop never just releases a Panic or Fatal event; and the terminal
\* action then runs with the entry written to no core.
C7_TerminalWhenDisabled ==
    /\ (cpc \in {"write", "terminal"} /\ lvlOf[cur + 1] \in Terminating
            /\ ~CoreEnabled(lvlOf[cur + 1]))
          => (~ce.nil /\ ce.cores = <<>> /\ ce.should = lvlOf[cur + 1])
    /\ cpc = "free" => lvlOf[cur + 1] \notin Terminating
    /\ (terminal.action # "noop" /\ ~CoreEnabled(terminal.action))
          => terminal.tag \notin WrittenTags

C7_Witness ==
    /\ terminal.action = "panic"
    /\ ~CoreEnabled("panic")
    /\ terminal.tag = cur
    /\ cur \notin WrittenTags

\* C8, as claimed: Close returns only after writeLoop has exited, and a
\* Close that was called eventually returns.
C8_CloseReturns ==
    /\ [](closePc = "returned" => cpc = "exited")
    /\ (closePc = "waiting") ~> (closePc = "returned")

\* C8, amended: Close returns only after writeLoop has exited, and a Close
\* that was called eventually returns unless the drain loop runs the
\* terminal action of a Panic or Fatal event, which ends the process.
C8_CloseReturnsUnlessTerminated ==
    /\ [](closePc = "returned" => cpc = "exited")
    /\ (closePc = "waiting") ~> (closePc = "returned" \/ ~Alive)

\* Close has returned while the ring holds events and a Push is running
C8_Witness ==
    /\ closePc = "returned"
    /\ cpc = "exited"
    /\ ~RingEmpty
    /\ ~AllIdle

\* C9: the step at which writeLoop sees the cancellation writes nothing,
\* releases nothing and leaves the buckets alone; once writeLoop has
\* exited, no event is popped or written, whatever the callers push; the
\* events the buckets held at the cancellation are never written, and none
\* is released but by a later Push that overwrites its bucket.
C9_NoDrainAtShutdown ==
    /\ [][(cpc = "top" /\ cpc' = "exited")
             => (buckets' = buckets /\ frees' = frees /\ coreWrites' = coreWrites)]_vars
    /\ [][cpc = "exited"
             => /\ cpc' = "exited" /\ readIndex' = readIndex /\ cur' = cur
                /\ coreWrites' = coreWrites
                /\ \A i \in DOMAIN buckets : buckets[i] # NoData => buckets'[i] # NoData]_vars
    /\ [](\A t \in heldAtCancel :
             /\ t \notin WrittenTags
             /\ frees[t + 1] > 0 => evictedBy[t + 1] # NoData)

\* Close has returned, an event is still in its bucket since the
\* cancellation, and a Push has stored another event after it
C9_Witness ==
    /\ closePc = "returned"
    /\ \E i \in DOMAIN buckets : buckets[i] \in heldAtCancel
    /\ \E i \in DOMAIN buckets : buckets[i] # NoData /\ buckets[i] \notin heldAtCancel

\* the Logger method called last returned before getLogBody
ReturnedEarly == lastCall.lvl # "none" /\ lastCall.tag = NoData

\* C17: Debug and Debugf return without acquiring a logBody and leave the
\* write cursor, the buckets and every logBody as they were when the core
\* has DebugLevel disabled; a call of any other method, and of Debug when
\* DebugLevel is enabled, acquires exactly one logBody of its level and
\* advances the write cursor by one, whether or not the core has the level
\* enabled; only the drain loop's check keeps an event of a disabled level
\* from the core
C17_DebugGateOnly ==
    /\ [](/\ ReturnedEarly => (lastCall.lvl = "debug" /\ ~CoreEnabled("debug"))
          /\ writeIndex = (MaxWord + PushCount) % WordMod
          /\ \A t \in WrittenTags : CoreEnabled(lvlOf[t + 1]))
    /\ [][lastCall' # lastCall =>
            IF lastCall'.lvl = "debug" /\ ~CoreEnabled("debug")
            THEN /\ lastCall'.tag = NoData
                 /\ UNCHANGED <<ringCore, prod, lvlOf, frees, evictedBy, cur>>
            ELSE /\ lastCall'.tag = PushCount
                 /\ lvlOf' = Append(lvlOf, lastCall'.lvl)
                 /\ writeIndex' = (writeIndex + 1) % WordMod
                 /\ \E p \in Callers : prod'[p].data = PushCount
                 /\ UNCHANGED buckets]_vars

\* C17 witness: a Debug call has just returned early, and before it an Info
\* event of a disabled level was pushed, popped and released unwritten
C17_Witness ==
    /\ lastCall = [lvl |-> "debug", tag |-> NoData]
    /\ \E t \in PushedTags :
          /\ lvlOf[t + 1] = "info"
          /\ ~CoreEnabled("info")
          /\ frees[t + 1] = 1
          /\ t \notin WrittenTags

\* the core's Check accepts the logBody with tag t for no destination
Rejected(t) == ~CoreEnabled(lvlOf[t + 1])

\* C24, as claimed: an event of any level that the core's Check accepts
\* for no destination is written to no core, no terminal action runs for
\* it, and the drain loop goes from check straight to lb.free()
C24_RejectedOnlyReleased ==
    /\ \A t \in PushedTags :
          Rejected(t) => (t \notin WrittenTags /\ terminal.tag # t)
    /\ (cpc \in {"write", "terminal"}) => ~Rejected(cur)

\* C24, amended: the same for an event of a level other than Panic and
\* Fatal; an event that Check rejects is written to no core whatever its
\* level is
C24_RejectedBelowPanicOnlyReleased ==
    /\ \A t \in PushedTags :
          Rejected(t) =>
              /\ t \notin WrittenTags
              /\ lvlOf[t + 1] \notin Terminating => terminal.tag # t
    /\ (cpc \in {"write", "terminal"} /\ lvlOf[cur + 1] \notin Terminating) => ~Rejected(cur)

\* C24 witness: the drain loop has popped an Info event of a disabled
\* level, released it unwritten and is back at the top of the loop
C24_Witness ==
    /\ cpc = "top"
    /\ cur = NoData
    /\ terminal = NoTerminal
    /\ \E t \in PushedTags :
          /\ lvlOf[t + 1] = "info"
          /\ Rejected(t)
          /\ frees[t + 1] = 1
          /\ evictedBy[t + 1] = NoData
          /\ coreWrites = <<>>

\* the stages that hold the logBody with tag t: a producer between
\* getLogBody and its swap, a bucket, a producer between the swap that took
\* t out of its bucket and t's free, the drain goroutine, the pool
HoldersOf(t) ==
    {<<"producer", p>> : p \in {q \in DOMAIN prod : prod[q].pc = "claimed" /\ prod[q].data = t}}
        \cup {<<"bucket", i>> : i \in {j \in DOMAIN buckets : buckets[j] = t}}
        \cup {<<"evictor", p>> :
                  p \in {q \in DOMAIN prod : prod[q].pc = "evict" /\ prod[q].old = t}}
        \cup {<<"consumer", 0>> : c \in {cur} \cap {t}}
        \cup {<<"pool", 0>> : n \in {frees[t + 1]} \ {0}}

MaxSize == 3
\* Config.PerWriteSize, the size of the write buffer
PerWriteSize == 1
\* Config.PerSyncSize
PerSyncSize == 3
\* Config.MaxBackups
MaxBackups == 1
\* the longest p handed to one Write call
MaxWriteLen == 4
\* the bytes handed to Write over a whole run
MaxAccepted == 7
\* clock ticks in one second of t.Unix()
TicksPerSecond == 3
\* the number of ticks the clock advances over a run
MaxTicks == 2
\* backup files that may be in the directory before New
NumPre == 3

\* timestamps of the backups in the directory before New, from second 1 on
PreStamps == TicksPerSecond..(TicksPerSecond + NumPre - 1)

\* the clock reading at New: that of the latest of these backups
StartTick == TicksPerSecond + NumPre - 1

\* the step of open(), list() that the file system fails, if any
FailPoints == {"none", "rename", "mkdir", "readdir", "open"}

\* f with key k bound to v
Put(fn, k, v) == [x \in DOMAIN fn \cup {k} |-> IF x = k THEN v ELSE fn[x]]

\* f without key k (os.Remove of a path; no such file is an ignored error)
Remove(fn, k) == [x \in DOMAIN fn \ {k} |-> fn[x]]

\* makeBackupFP: the backup path for time t, and t.Unix()
makeBackupFP(t) == [fp |-> t, ts |-> t \div TicksPerSecond]

\* names of the directory that are not backup paths: a file with another
\* prefix, a file with another extension, and a file with the prefix and
\* the extension around something that is no timestamp
OtherPrefixName == -2
OtherExtName == -3
NoStampName == -4

\* strings.HasPrefix(filename, prefix)
HasPrefix(name) == name > 0 \/ name \in {OtherExtName, NoStampName}

\* strings.HasSuffix(filename, ext)
HasSuffix(name) == name > 0 \/ name \in {OtherPrefixName, NoStampName}

\* time.Parse(backupTimeFmt, tsStr), and t.Unix() of its result
TimeParse(name) ==
    IF name > 0 THEN [err |-> FALSE, unix |-> name \div TicksPerSecond]
    ELSE [err |-> TRUE, unix |-> 0]

\* parseTime of a file name: t.Unix() of the timestamp in the name, and 0
\* for a name without the prefix, without the extension or without a
\* timestamp between them
parseTime(fp) ==
    IF ~HasPrefix(fp) THEN 0
    ELSE IF ~HasSuffix(fp) THEN 0
    ELSE IF TimeParse(fp).err THEN 0
    ELSE TimeParse(fp).unix

\* mutant of IsDir: a directory is taken for a file
IsDirNever(e) == FALSE

\* DirEntry.IsDir
IsDir(e) == e.isDir

\* os.ReadDir(dir): the entries of the directory
ReadDir(d) == {[name |-> fp, isDir |-> FALSE] : fp \in DOMAIN d.bk} \cup d.other

\* os.Remove(fp): the file or the (empty) directory at fp is gone; no such
\* file is an ignored error
Unlink(d, fp) ==
    [d EXCEPT !.bk = Remove(@, fp), !.other = {e \in @ : e.name # fp}]

\* a directory is at path fp
DirAt(d, fp) == \E e \in d.other : e.name = fp /\ e.isDir

\* Backups.Less, on 0-based indexes
Less(h, i, j) == h[i + 1].ts < h[j + 1].ts

\* Backups.Swap
Swap(h, i, j) == [h EXCEPT ![i + 1] = h[j + 1], ![j + 1] = h[i + 1]]

\* container/heap up(h, j)
RECURSIVE HeapUp(_, _)
HeapUp(h, j) ==
    LET i == (j - 1) \div 2
    IN  IF j = 0 \/ ~Less(h, j, i) THEN h ELSE HeapUp(Swap(h, i, j), i)

\* container/heap down(h, i, n)
RECURSIVE HeapDown(_, _, _)
HeapDown(h, i, n) ==
    LET j1 == 2 * i + 1
        j2 == j1 + 1
        j  == IF j2 < n /\ Less(h, j2, j1) THEN j2 ELSE j1
    IN  IF j1 >= n THEN h
        ELSE IF ~Less(h, j, i) THEN h
        ELSE HeapDown(Swap(h, i, j), j, n)

\* heap.Push(b, x): Backups.Push appends, then up
HeapPush(h, x) == HeapUp(Append(h, x), Len(h))

\* heap.Pop(b): swap the root with the last, down, then Backups.Pop
HeapPop(h) ==
    LET n  == Len(h) - 1
        h1 == HeapDown(Swap(h, 0, n), 0, n)
    IN  [v |-> h1[n + 1], h |-> SubSeq(h1, 1, n)]

\* bufIO.write(p) with bn bytes buffered and len(p) = n: the bytes buffered
\* afterwards and the bytes that landed in the file.  p is copied into the
\* buffer while it fits; a full buffer is flushed to the file, and a p
\* larger than the free buffer is written to the file directly.
BufWrite(bn, n) ==
    IF n <= PerWriteSize - bn THEN [n |-> bn + n, fw |-> 0]
    ELSE IF bn = 0 THEN [n |-> 0, fw |-> n]
    ELSE LET rest == n - (PerWriteSize - bn)
         IN  IF rest <= PerWriteSize
             THEN [n |-> rest, fw |-> PerWriteSize]
             ELSE [n |-> 0, fw |-> PerWriteSize + rest]

\* the file behind the handle ino grows by fw bytes
FileAppend(d, ino, fw) ==
    IF ino = 0 THEN d ELSE [d EXCEPT !.inodes[ino] = @ + fw]

\* the one element of a singleton set
The(S) == CHOOSE x \in S : TRUE

\* os.Rename(fp, backupFP): the file at fp moves to the backup path, and
\* replaces the file at that path if there is one
Rename(d, backupFP) == [d EXCEPT !.bk = Put(d.bk, backupFP, d.live), !.live = 0]

\* open: if r.backups.Len() > r.cfg.MaxBackups { heap.Pop; os.Remove }
Evict(r, d) ==
    IF Len(r.bs) > MaxBackups
    THEN The({ [r |-> [r EXCEPT !.bs = pp.h],
                d |-> Unlink(d, pp.v.fp)] :
               pp \in {HeapPop(r.bs)} })
    ELSE [r |-> r, d |-> d]

\* fnc.OpenFile(fp, O_WRONLY|O_CREATE|O_TRUNC|O_APPEND): a new inode if no
\* file is at fp, and else the file at fp with its content cut
OpenFile(d) ==
    IF d.live = 0
    THEN [d EXCEPT !.inodes = Append(d.inodes, 0), !.live = Len(d.inodes) + 1]
    ELSE [d EXCEPT !.inodes[d.live] = 0]

\* what open's rename did: the backup path, whether that path was known
\* before, and the inode the rename put there
NoRename == [renamedTo |-> NoData, collided |-> FALSE, renamedF |-> 0]

\* open, from MkdirAll on: c is the Rotation and the disk so far, with
\* what the rename did
Create(c, fail) ==
    IF fail \in {"mkdir", "open"}
    THEN [err |-> fail] @@ c
    ELSE The({ [err |-> "none", r |-> [c.r EXCEPT !.f = nd.live], d |-> nd] @@ c :
               nd \in {OpenFile(c.d)} })

\* a file is at path fp, or the catalog has an entry for it
Known(r, d, fp) ==
    fp \in DOMAIN d.bk \/ \E i \in 1..Len(r.bs) : r.bs[i].fp = fp

\* Rotation.open at time t, where the file system fails step fail.  The
\* result is the Rotation, the disk, the error, and what the rename did.
\* os.Rename fails also when no file is at fp, and when a directory is at
\* the backup path.
Open(r, d, t, fail) ==
    IF r.f = 0 THEN Create([r |-> r, d |-> d] @@ NoRename, fail)
    ELSE IF fail = "rename" \/ d.live = 0 \/ DirAt(d, makeBackupFP(t).fp)
    THEN [r |-> r, d |-> d, err |-> "rename"] @@ NoRename
    ELSE The({ Create(Evict([r EXCEPT !.bs = HeapPush(r.bs, [ts |-> b.ts, fp |-> b.fp])],
                            d1)
                      @@ [renamedTo |-> b.fp, collided |-> Known(r, d, b.fp),
                          renamedF |-> d1.bk[b.fp]],
                      fail) :
               b \in {makeBackupFP(t)}, d1 \in {Rename(d, makeBackupFP(t).fp)} })

\* mutant of HintDue: force is ignored
HintDueNoForce(dirty, force) == dirty >= PerSyncSize

\* mutant of HintDue: dirty must grow beyond PerSyncSize
HintDueAbove(dirty, force) == dirty > PerSyncSize \/ force

\* flushDirty: dirty >= PerSyncSize || force
HintDue(dirty, force) == dirty >= PerSyncSize \/ force

\* mutant of SizeReached: the file must grow beyond MaxSize
SizeExceeded(w) == w > MaxSize

\* flushDirty: written >= MaxSize
SizeReached(w) == w >= MaxSize

\* mutant of Rotate: the counters are zeroed only when open succeeded
RotateKeepsCounters(r, d, t, fail, keep) ==
    The({ [r |-> IF o.err = "none"
                 THEN [o.r EXCEPT !.bufN = IF keep THEN @ ELSE 0,
                                  !.dirty = 0, !.written = 0, !.synced = 0]
                 ELSE o.r,
           d |-> o.d, opens |-> 1, openErr |-> o.err, renamedTo |-> o.renamedTo,
           collided |-> o.collided, renamedF |-> o.renamedF] :
          o \in {Open(r, d, t, fail)} })

\* mutant of Rotate: synced is not zeroed
RotateKeepsSynced(r, d, t, fail, keep) ==
    The({ [r |-> [o.r EXCEPT !.bufN = IF o.err = "none" /\ ~keep THEN 0 ELSE @,
                             !.dirty = 0, !.written = 0],
           d |-> o.d, opens |-> 1, openErr |-> o.err, renamedTo |-> o.renamedTo,
           collided |-> o.collided, renamedF |-> o.renamedF] :
          o \in {Open(r, d, t, fail)} })

\* flushDirty, the rotation: open, then bufIO.reset if it succeeded, then
\* the counters are zeroed whatever open returned
Rotate(r, d, t, fail, keep) ==
    The({ [r |-> [o.r EXCEPT !.bufN = IF o.err = "none" /\ ~keep THEN 0 ELSE @,
                             !.dirty = 0, !.written = 0, !.synced = 0],
           d |-> o.d, opens |-> 1, openErr |-> o.err, renamedTo |-> o.renamedTo,
           collided |-> o.collided, renamedF |-> o.renamedF] :
          o \in {Open(r, d, t, fail)} })

\* Rotation.flushDirty(force) at time t; keep says whether bufIO.reset
\* keeps the bytes still in the buffer.  The result is the Rotation, the
\* disk, and what happened.
FlushDirty(r, d, force, t, fail, keep) ==
    The({ [hinted |-> hint, atCheck |-> r1.written] @@
          (IF SizeReached(r1.written)
           THEN Rotate(r1, d, t, fail, keep)
           ELSE [r |-> r1, d |-> d, opens |-> 0, openErr |-> "none"] @@ NoRename) :
          hint \in {HintDue(r.dirty, force)},
          r1 \in {IF HintDue(r.dirty, force)
                  THEN [r EXCEPT !.synced = r.synced + r.dirty, !.dirty = 0]
                  ELSE r} })

\* Backups.list pushes the backups among the entries ns of the directory,
\* in ReadDir's order (by file name, so by timestamp); a directory is
\* skipped, and so is a name whose time parses to 0
RECURSIVE ListPush(_, _)
ListPush(h, ns) ==
    IF ns = {} THEN h
    ELSE LET f  == CHOOSE x \in ns : \A y \in ns : x.name <= y.name
             h1 == IF IsDir(f) THEN h
                   ELSE IF parseTime(f.name) # 0
                   THEN HeapPush(h, [ts |-> parseTime(f.name), fp |-> f.name])
                   ELSE h
         IN  ListPush(h1, ns \ {f})

\* Backups.list: for b.Len() > max { heap.Pop; os.Remove }
RECURSIVE ListEvict(_, _)
ListEvict(h, d) ==
    IF Len(h) <= MaxBackups THEN [bs |-> h, d |-> d]
    ELSE LET pp == HeapPop(h) IN ListEvict(pp.h, Unlink(d, pp.v.fp))

\* zaproll.New(cfg): prepare lists the backups, opens the log file and
\* makes the buffer; any error is returned and no Rotation is made
RotNew(fail) ==
    /\ sinkPc = "new"
    /\ IF fail \in {"mkdir", "readdir"}
       THEN /\ sinkPc' = "failed"
            /\ last' = [NoCall EXCEPT !.op = "new", !.at = now, !.err = fail]
            /\ story' = [story EXCEPT !.clean = FALSE]
            /\ UNCHANGED <<rotation, disk>>
       ELSE \E listed \in {ListEvict(ListPush(<<>>, ReadDir(disk)), disk)} :
            \E o \in {Open([rotation EXCEPT !.bs = listed.bs], listed.d, now, fail)} :
                /\ sinkPc' = IF o.err = "none" THEN "ready" ELSE "failed"
                /\ rotation' = o.r
                /\ disk' = o.d
                /\ last' = [NoCall EXCEPT !.op = "new", !.at = now, !.opens = 1,
                                          !.openErr = o.err,
                                          !.err = IF o.err = "none" THEN "nil" ELSE o.err]
                /\ story' = [story EXCEPT !.clean = (o.err = "none")]
    /\ UNCHANGED <<now, accepted>>
    /\ UNCHANGED <<ringVars, hist, logVars, apiVars>>

\* what a call of Write or Sync did, for the history; both return a nil
\* error whatever flushDirty met
Called(op, n, fw, fd) ==
    [NoCall EXCEPT !.op = op, !.n = n, !.fw = fw, !.at = now, !.oldF = rotation.f,
                   !.since = story.landed + fw, !.afterFailure = story.failed,
                   !.checked = TRUE, !.hinted = fd.hinted, !.atCheck = fd.atCheck,
                   !.opens = fd.opens, !.openErr = fd.openErr,
                   !.renamedTo = fd.renamedTo, !.collided = fd.collided,
                   !.renamedF = fd.renamedF]

\* the history after a Write or a Sync that put fw bytes in the file: the
\* backup path of a rotation that succeeded, whether open has failed,
\* whether the last open failed, and the bytes put in the file since the
\* last open
Told(fw, fd) ==
    [story EXCEPT !.made = IF fd.opens = 1 /\ fd.openErr = "none"
                           THEN Append(@, fd.renamedTo) ELSE @,
                  !.clean = @ /\ fd.openErr = "none",
                  !.landed = IF fd.opens = 1 THEN 0 ELSE @ + fw,
                  !.failed = IF fd.opens = 1 THEN fd.openErr # "none" ELSE @]

\* Rotation.Write(p) with len(p) = n
RotWrite(n, fail, keep) ==
    /\ sinkPc = "ready"
    /\ accepted + n <= MaxAccepted
    /\ \E w \in {BufWrite(rotation.bufN, n)} :
          IF w.fw = 0
          THEN /\ rotation' = [rotation EXCEPT !.bufN = w.n]
               /\ last' = [NoCall EXCEPT !.op = "write", !.n = n, !.at = now,
                                         !.oldF = rotation.f, !.since = story.landed,
                                         !.afterFailure = story.failed]
               /\ UNCHANGED <<disk, story>>
          ELSE \E fd \in {FlushDirty([rotation EXCEPT !.bufN = w.n, !.dirty = @ + w.fw,
                                                      !.written = @ + w.fw],
                                     FileAppend(disk, rotation.f, w.fw),
                                     FALSE, now, fail, keep)} :
                  /\ rotation' = fd.r
                  /\ disk' = fd.d
                  /\ last' = Called("write", n, w.fw, fd)
                  /\ story' = Told(w.fw, fd)
    /\ accepted' = accepted + n
    /\ UNCHANGED <<sinkPc, now>>
    /\ UNCHANGED <<ringVars, hist, logVars, apiVars>>

\* Rotation.Sync()
RotSync(fail, keep) ==
    /\ sinkPc = "ready"
    /\ \E fd \in {FlushDirty([rotation EXCEPT !.bufN = 0, !.dirty = @ + rotation.bufN,
                                              !.written = @ + rotation.bufN],
                             FileAppend(disk, rotation.f, rotation.bufN),
                             TRUE, now, fail, keep)} :
          /\ rotation' = fd.r
          /\ disk' = fd.d
          /\ last' = Called("sync", 0, rotation.bufN, fd)
          /\ story' = Told(rotation.bufN, fd)
    /\ UNCHANGED <<sinkPc, now, accepted>>
    /\ UNCHANGED <<ringVars, hist, logVars, apiVars>>

\* Rotation.Close(): r.f.Close()
RotClose ==
    /\ sinkPc = "ready"
    /\ sinkPc' = "closed"
    /\ last' = [NoCall EXCEPT !.op = "close", !.at = now, !.oldF = rotation.f]
    /\ UNCHANGED <<now, rotation, disk, accepted, story>>
    /\ UNCHANGED <<ringVars, hist, logVars, apiVars>>

\* the clock advances
Tick ==
    /\ now < StartTick + MaxTicks
    /\ now' = now + 1
    /\ UNCHANGED <<sinkPc, rotation, disk, accepted, last, story>>
    /\ UNCHANGED <<ringVars, hist, logVars, apiVars>>

\* entries of the directory that are no backups: a directory that has the
\* name of the backup of the next clock tick, and a file of each other name
Foreign ==
    {[name |-> StartTick + 1, isDir |-> TRUE]} \cup
    {[name |-> x, isDir |-> FALSE] : x \in {OtherPrefixName, OtherExtName, NoStampName}}

\* the directory before New: any of the earlier backups, each of one byte,
\* and maybe a log file of one byte at cfg.OutputPath; a directory that
\* has every earlier backup may have the entries that are no backups too
RotationInit ==
    /\ RingInit
    /\ Idle({})
    /\ cpc = "top"
    /\ enabled = Levels
    /\ sinkPc = "new"
    /\ now = StartTick
    /\ rotation = NewRotation
    /\ \E pre \in SUBSET PreStamps, haveLog \in BOOLEAN :
       \E others \in IF pre = PreStamps THEN {{}, Foreign} ELSE {{}} :
          /\ disk = [live   |-> IF haveLog THEN NumPre + 1 ELSE 0,
                     bk     |-> [fp \in pre |-> fp - TicksPerSecond + 1],
                     other  |-> others,
                     inodes |-> [i \in 1..(NumPre + 1) |-> 1]]
          /\ story = [NoStory EXCEPT !.pre = pre, !.hadLog = haveLog,
                                     !.preLen = IF haveLog THEN 1 ELSE 0]
    /\ accepted = 0
    /\ last = NoCall
    /\ NoApi

RotationNext ==
    \/ \E fail \in FailPoints \ {"rename"} : RotNew(fail)
    \/ \E n \in 0..MaxWriteLen, fail \in FailPoints \ {"readdir"}, keep \in BOOLEAN :
          RotWrite(n, fail, keep)
    \/ \E fail \in FailPoints \ {"readdir"}, keep \in BOOLEAN : RotSync(fail, keep)
    \/ RotClose
    \/ Tick

SpecRotation == RotationInit /\ [][RotationNext]_vars

(***************************************************************************)
(* Claims about the rotating file sink, checked under SpecRotation.        *)
(***************************************************************************)
\* the last call was a Write or a Sync that ran open
Attempted == last.op \in {"write", "sync"} /\ last.opens = 1

\* the last call was a Write or a Sync whose open succeeded
Rotated == Attempted /\ last.openErr = "none"

\* C10: with MaxSize = S, the written counter is below S whenever a call
\* has returned; a Write or a Sync runs open at most once, and it does so
\* exactly when flushDirty finds written >= S; when that open succeeds, it
\* has renamed the file that was at cfg.OutputPath, the one the Rotation
\* wrote to, to the backup path made from the clock reading, no other path
\* names that file, the file at cfg.OutputPath is another, empty file
\* which the Rotation now writes to, and written, dirty and synced are
\* zero.
C10_RotationThreshold ==
    /\ sinkPc = "ready" => rotation.written < MaxSize
    /\ last.op \in {"write", "sync"} =>
          /\ last.opens \in {0, 1}
          /\ last.opens = 1 <=> (last.checked /\ last.atCheck >= MaxSize)
    /\ Rotated =>
          /\ last.renamedTo = makeBackupFP(last.at).fp
          /\ last.oldF # 0 /\ last.renamedF = last.oldF
          /\ \A fp \in DOMAIN disk.bk :
                disk.bk[fp] = last.oldF => fp = last.renamedTo
          /\ disk.live # 0 /\ disk.live # last.oldF
          /\ disk.inodes[disk.live] = 0
          /\ rotation.f = disk.live
          /\ rotation.written = 0 /\ rotation.dirty = 0 /\ rotation.synced = 0

\* a Write took written beyond MaxSize and rotated the file, which now
\* is the backup
C10_Witness ==
    /\ Rotated
    /\ last.op = "write"
    /\ last.atCheck > MaxSize
    /\ last.renamedTo \in DOMAIN disk.bk
    /\ disk.inodes[disk.bk[last.renamedTo]] >= MaxSize

\* the paths of the backups made by the rotations that succeeded
Made == {story.made[i] : i \in 1..Len(story.made)}

\* the k paths of S with the latest timestamps
Newest(S, k) == {x \in S : Cardinality({y \in S : y > x}) < k}

\* C11: with MaxBackups = K, once more than K rotations have succeeded
\* (and no open has failed), exactly K backup files are in the directory,
\* and they are the K with the latest timestamps of all the backups there
\* have been.
C11_RetentionKeepsNewest ==
    (sinkPc = "ready" /\ story.clean /\ Len(story.made) > MaxBackups) =>
        /\ Cardinality(DOMAIN disk.bk) = MaxBackups
        /\ DOMAIN disk.bk = Newest(story.pre \cup Made, MaxBackups)

\* New has returned a Rotation, and nothing was called on it since
Constructed == sinkPc = "ready" /\ last.op = "new"

\* the paths the catalog holds
Catalogued == {rotation.bs[i].fp : i \in 1..Len(rotation.bs)}

\* C12: New over a directory with N backups and MaxBackups = K < N leaves
\* the K backups with the latest timestamps, in the directory and in the
\* catalog, and has deleted the other N-K.
C12_StartupKeepsNewest ==
    (Constructed /\ Cardinality(story.pre) > MaxBackups) =>
        /\ DOMAIN disk.bk = Newest(story.pre, MaxBackups)
        /\ Catalogued = Newest(story.pre, MaxBackups)

\* the last call was a Write or a Sync whose open failed
RotationFailed == Attempted /\ last.openErr # "none"

\* C13: a Write or a Sync whose rotation met a rename, MkdirAll or OpenFile
\* failure returns an error, and so does a New whose setup met one.
C13_FailuresReturned ==
    /\ RotationFailed => last.err # "nil"
    /\ (last.op = "new" /\ sinkPc = "failed") => last.err # "nil"

\* C14: after a rotation that failed, the file the Rotation wrote to is
\* still the file at cfg.OutputPath, and the Rotation still writes to it.
C14_FailedRotationKeepsFile ==
    RotationFailed =>
        /\ disk.live = last.oldF
        /\ rotation.f = last.oldF

\* C15: a rotation that failed leaves written, dirty and synced at zero,
\* and after it a Write or a Sync runs open again exactly when the bytes
\* put in the file since the failure have reached MaxSize.
C15_NoRetryBelowThreshold ==
    /\ RotationFailed =>
          rotation.written = 0 /\ rotation.dirty = 0 /\ rotation.synced = 0
    /\ (last.op \in {"write", "sync"} /\ last.afterFailure) =>
          /\ last.opens = 1 => last.since >= MaxSize
          /\ last.since < MaxSize => (last.opens = 0 /\ rotation.written = last.since)

\* a rotation failed, later calls put bytes in the file without running
\* open, and the call that took them to MaxSize ran open again
C15_Witness ==
    /\ last.afterFailure
    /\ last.opens = 1
    /\ last.since >= MaxSize
    /\ last.fw < last.since

\* C16: New over a directory that has a file at cfg.OutputPath keeps that
\* file and its content: only an open that has renamed the file first
\* cuts the content at that path.
C16_TruncateOnlyAfterRename ==
    (Constructed /\ story.hadLog) =>
        /\ disk.live = NumPre + 1
        /\ disk.inodes[disk.live] = story.preLen

\* a step of Write or of Sync: the sink stays ready and the clock stands
WriteOrSyncStep == sinkPc = "ready" /\ sinkPc' = "ready" /\ now' = now /\ last'.op # "none"

\* C27: after Sync returns, the buffer is empty and its bytes were handed to
\* the file, the flush hint was issued whatever dirty was, dirty is zero, and
\* a rotation was attempted if written had reached MaxSize.
C27_SyncFlushesAll ==
    [][(WriteOrSyncStep /\ last'.op = "sync") =>
          /\ rotation'.bufN = 0
          /\ last'.fw = rotation.bufN
          /\ disk'.inodes[rotation.f] = disk.inodes[rotation.f] + rotation.bufN
          /\ last'.hinted
          /\ rotation'.dirty = 0
          /\ SizeReached(rotation.written + rotation.bufN) => last'.opens = 1]_vars

\* a Sync found bytes in the buffer and dirty below PerSyncSize, and
\* written had reached MaxSize
C27_Witness ==
    /\ last.op = "sync"
    /\ last.fw > 0
    /\ last.fw < PerSyncSize
    /\ last.hinted
    /\ last.opens = 1
    /\ rotation.bufN = 0
    /\ rotation.dirty = 0

\* dirty when flushDirty is called by the step
DirtyIn == rotation.dirty + last'.fw

\* C28 (as claimed): flushDirty issues the hint and zeroes dirty when and
\* only when dirty exceeds PerSyncSize or force is set; otherwise dirty and
\* synced are left as they were.
C28_HintOnlyAboveThreshold ==
    [][(WriteOrSyncStep /\ last'.checked) =>
          /\ last'.hinted <=> (DirtyIn > PerSyncSize \/ last'.op = "sync")
          /\ (last'.hinted /\ last'.opens = 0) =>
                (rotation'.dirty = 0 /\ rotation'.synced = rotation.synced + DirtyIn)
          /\ (~last'.hinted /\ last'.opens = 0) =>
                (rotation'.dirty = DirtyIn /\ rotation'.synced = rotation.synced)]_vars

\* C28 (amended): flushDirty issues the hint and zeroes dirty when and only
\* when dirty has reached PerSyncSize or force is set; otherwise dirty and
\* synced are left as they were, unless the rotation of the same call zeroes
\* them.
C28_HintFromThreshold ==
    [][(WriteOrSyncStep /\ last'.checked) =>
          /\ last'.hinted <=> (DirtyIn >= PerSyncSize \/ last'.op = "sync")
          /\ (last'.hinted /\ last'.opens = 0) =>
                (rotation'.dirty = 0 /\ rotation'.synced = rotation.synced + DirtyIn)
          /\ (~last'.hinted /\ last'.opens = 0) =>
                (rotation'.dirty = DirtyIn /\ rotation'.synced = rotation.synced)
          /\ last'.opens = 1 => (rotation'.dirty = 0 /\ rotation'.synced = 0)]_vars

\* a Write put bytes in the file, dirty stayed below PerSyncSize and no hint
\* was issued: dirty and synced are as flushDirty found them
C28_Witness ==
    /\ last.op = "write"
    /\ last.checked
    /\ ~last.hinted
    /\ last.opens = 0
    /\ rotation.dirty = last.fw
    /\ rotation.dirty > 0
    /\ rotation.synced > 0

\* C29: the startup scan and every later eviction leave the directories and
\* the files whose name is no backup path with a timestamp in the directory
\* and out of the catalog.
C29_OnlyBackupsDeleted ==
    [][/\ disk'.other = disk.other
       /\ \A e \in disk.other : e.name \notin Catalogued']_vars

\* the directory has the entries that are no backups, the startup scan
\* deleted a backup and so did the eviction of a later rotation
C29_Witness ==
    /\ disk.other = Foreign
    /\ sinkPc = "ready"
    /\ \E fp \in story.pre : fp \notin DOMAIN disk.bk
    /\ Len(story.made) >= 2
    /\ \E i \in 1..Len(story.made) : story.made[i] \notin DOMAIN disk.bk
    /\ \A e \in Foreign : e.name \notin Catalogued

\* C32: after New and after every Write and Sync, written = synced + dirty,
\* and written is the number of bytes handed to the file since open was
\* last called, whether that open succeeded or failed.
C32_WrittenIsSyncedPlusDirty ==
    sinkPc \in {"ready", "closed"} =>
        /\ rotation.written = rotation.synced + rotation.dirty
        /\ rotation.written = story.landed

\* a Write has returned after a rotation failed, with bytes hinted and
\* bytes still dirty
C32_Witness ==
    /\ last.op = "write"
    /\ last.checked
    /\ story.failed
    /\ rotation.synced > 0
    /\ rotation.dirty > 0
    /\ rotation.written = rotation.synced + rotation.dirty

\* a Write or a Sync whose rotation succeeded
RotatedStep == WriteOrSyncStep /\ last'.opens = 1 /\ last'.openErr = "none"

\* C33: the rename of a successful rotation never targets a path that the
\* catalog holds already, the catalog never holds two entries with the
\* same path, and every entry of the catalog names a file of the directory.
C33_DistinctBackups ==
    [][/\ RotatedStep => last'.renamedTo \notin Catalogued
       /\ \A i, j \in 1..Len(rotation'.bs) :
             rotation'.bs[i].fp = rotation'.bs[j].fp => i = j
       /\ \A i \in 1..Len(rotation'.bs) : rotation'.bs[i].fp \in DOMAIN disk'.bk]_vars

(***************************************************************************)
(* The CheckedEntry pool, src/zapcore/entry.go: a client keeps handles in  *)
(* its variables and calls AddCore, Should and Write on them in any order, *)
(* a handle it has written included.                                       *)
(***************************************************************************)
\* calls of getCheckedEntry the client makes
MaxGets == 2

\* the client's variables of type *CheckedEntry
Holders == {"a", "b"}

\* the cores that may accept an entry, each at most once per handle
Cores == {"c1", "c2"}

\* CheckWriteAction: WriteThenNoop, WriteThenPanic, WriteThenFatal
WriteActions == {"noop", "panic", "fatal"}

RECURSIVE GetsUpTo(_)
\* getCheckedEntry calls on the first n CheckedEntry objects
GetsUpTo(n) == IF n = 0 THEN 0 ELSE life[n].gets + GetsUpTo(n - 1)

\* what _cePool.Get() may return: an object that is in the pool, or the
\* object that the pool's New makes (its index is the next unused one)
PoolGet == {o \in 1..Len(entries) : cePool[o] > 0} \cup {Len(entries) + 1}

\* a core slot that holds nil
NilCore == "nil"

\* _cePool's New: &CheckedEntry{cores: make([]Core, 4)}, four nil cores
NewCheckedEntry ==
    [nil |-> FALSE, cores |-> <<NilCore, NilCore, NilCore, NilCore>>, should |-> "noop",
     dirty |-> FALSE]

\* mutant of ceReset: the handle keeps its fields
ceResetNothing(e) == e

\* CheckedEntry.reset
ceReset(e) == [e EXCEPT !.dirty = FALSE, !.should = "noop", !.cores = <<>>]

\* the terminal action of a handle and the length of its core list
Tagged(e) == [should |-> e.should, cores |-> Len(e.cores)]

\* getCheckedEntry returning object o: Get, then reset; the history keeps
\* what Get returned (was) and what getCheckedEntry returned (first)
Acquired(o) ==
    IF o > Len(entries)
    THEN [entries |-> Append(entries, ceReset(NewCheckedEntry)),
          cePool  |-> Append(cePool, 0),
          life    |-> Append(life, [gets |-> 1, puts |-> 0, used |-> FALSE,
                                    was |-> Tagged(NewCheckedEntry),
                                    first |-> Tagged(ceReset(NewCheckedEntry))])]
    ELSE [entries |-> [entries EXCEPT ![o] = ceReset(@)],
          cePool  |-> [cePool EXCEPT ![o] = @ - 1],
          life    |-> [life EXCEPT ![o] = [@ EXCEPT !.gets = @ + 1, !.used = FALSE,
                                                    !.was = Tagged(entries[o]),
                                                    !.first = Tagged(ceReset(entries[o]))]]]

\* the pool and the objects as a call on the handle in variable h finds
\* them: a nil handle makes AddCore and Should take an object first
Held(h) ==
    IF refs[h] = 0
    THEN {[o |-> o, now |-> Acquired(o)] : o \in PoolGet}
    ELSE {[o |-> refs[h], now |-> [entries |-> entries, cePool |-> cePool, life |-> life]]}

\* the process ended in os.Exit(1)
Exited ==
    \E i \in DOMAIN lastWrite.events :
        lastWrite.events[i] = [kind |-> "terminal", what |-> "fatal", err |-> FALSE]

\* ce = ce.AddCore(ent, core)
EntryAddCore(h, core) ==
    /\ ~Exited
    /\ refs[h] = 0 => GetsUpTo(Len(life)) < MaxGets
    /\ \E g \in Held(h) :
          /\ \A i \in DOMAIN g.now.entries[g.o].cores : g.now.entries[g.o].cores[i] # core
          /\ entries' = [g.now.entries EXCEPT ![g.o] = AddCore(@, core)]
          /\ cePool' = g.now.cePool
          /\ life' = g.now.life
          /\ refs' = [refs EXCEPT ![h] = g.o]
    /\ lastWrite' = NoWrite
    /\ UNCHANGED <<ringVars, hist, logVars, sinkVars, poolVars, lockVars, made>>

\* ce = ce.Should(ent, should)
EntryShould(h, should) ==
    /\ ~Exited
    /\ refs[h] = 0 => GetsUpTo(Len(life)) < MaxGets
    /\ \E g \in Held(h) :
          /\ entries' = [g.now.entries EXCEPT ![g.o] = Should(@, should)]
          /\ cePool' = g.now.cePool
          /\ life' = g.now.life
          /\ refs' = [refs EXCEPT ![h] = g.o]
    /\ lastWrite' = NoWrite
    /\ UNCHANGED <<ringVars, hist, logVars, sinkVars, poolVars, lockVars, made>>

\* mutant of AlreadyWritten: Write does not look at ce.dirty
NeverDirty(e) == FALSE

\* CheckedEntry.Write: if ce.dirty { return }
AlreadyWritten(e) == e.dirty

\* mutant of WriteCores: the loop ends at the first core whose Write fails
WriteCoresUntilError(cs, errs) ==
    LET bad == {i \in 1..Len(cs) : errs[i]}
        n   == IF bad = {} THEN Len(cs) ELSE CHOOSE i \in bad : \A j \in bad : i <= j
    IN  [i \in 1..n |-> [kind |-> "write", what |-> cs[i], err |-> errs[i]]]

\* CheckedEntry.Write: for i := range ce.cores { err = multierr.Append(err,
\* ce.cores[i].Write(ce.Entry, fields)) }; errs[i] tells whether the Write
\* of the i-th core returns an error
WriteCores(cs, errs) ==
    [i \in 1..Len(cs) |-> [kind |-> "write", what |-> cs[i], err |-> errs[i]]]

\* CheckedEntry.Write: putCheckedEntry(ce), then switch should
PutThenAct(should) ==
    <<[kind |-> "put", what |-> "pool", err |-> FALSE]>>
        \o (IF should = "noop"
            THEN <<>>
            ELSE <<[kind |-> "terminal", what |-> should, err |-> FALSE]>>)

\* multierr.Append over the loop: the errors of the cores that failed
Aggregated(ws) == SelectSeq(ws, LAMBDA w : w.err)

\* ce.Write(): nothing for a nil handle, nothing for a dirty one; else the
\* cores loop, putCheckedEntry and the terminal action.  A panic is raised
\* after the handle is back in the pool, and a caller that recovers from it
\* goes on; os.Exit ends the process.
EntryWrite(h) ==
    /\ ~Exited
    /\ IF refs[h] = 0
       THEN /\ lastWrite' = [NoWrite EXCEPT !.by = h]
            /\ UNCHANGED <<entries, cePool, life>>
       ELSE \E o \in {refs[h]} : \E e \in {entries[o]} :
               \E errs \in (IF AlreadyWritten(e) THEN {<<>>} ELSE [1..Len(e.cores) -> BOOLEAN]) :
                  \E ws \in {IF AlreadyWritten(e) THEN <<>> ELSE WriteCores(e.cores, errs)} :
                     \E ev \in {IF AlreadyWritten(e) THEN <<>> ELSE ws \o PutThenAct(e.should)} :
                        /\ lastWrite' = [by |-> h, ref |-> o, again |-> life[o].used,
                                         cores |-> e.cores, should |-> e.should,
                                         errs |-> errs,
                                         events |-> ev, lvl |-> "none"]
                        /\ entries' = [entries EXCEPT ![o].dirty = TRUE]
                        /\ cePool' = [cePool EXCEPT ![o] = IF ev = <<>> THEN @ ELSE @ + 1]
                        /\ life' = [life EXCEPT ![o] =
                                       [@ EXCEPT !.used = TRUE,
                                                 !.puts = IF ev = <<>> THEN @ ELSE @ + 1]]
    /\ UNCHANGED <<ringVars, hist, logVars, sinkVars, poolVars, lockVars, refs, made>>

\* Logger.check of an event of level lvl: on tells whether Core.Check adds
\* the core, and got is the handle getCheckedEntry returns to the first
\* AddCore or Should on nil
LoggerCheckWith(lvl, on, got, core) ==
    The({ CASE lvl = "panic" -> Should(IF e.nil THEN got ELSE e, "panic")
            [] lvl = "fatal" -> Should(IF e.nil THEN got ELSE e, "fatal")
            [] OTHER -> e :
          e \in {IF on THEN AddCore(got, core) ELSE NilEntry} })

\* the body of the drain loop for an event of level lvl, with the handles
\* of the pool: if ce := log.check(lvl, msg, reqid); ce != nil { ce.Write() }
EntryLog(lvl, on, core) ==
    /\ ~Exited
    /\ IF ~on /\ lvl \notin {"panic", "fatal"}
       THEN /\ lastWrite' = [NoWrite EXCEPT !.by = "loop", !.lvl = lvl]
            /\ UNCHANGED <<entries, cePool, life>>
       ELSE /\ GetsUpTo(Len(life)) < MaxGets
            /\ \E o \in PoolGet : \E g \in {Acquired(o)} :
               \E e \in {LoggerCheckWith(lvl, on, g.entries[o], core)} :
               \E errs \in {[i \in 1..Len(e.cores) |-> FALSE]} :
               \E ev \in {WriteCores(e.cores, errs) \o PutThenAct(e.should)} :
                  /\ lastWrite' = [by |-> "loop", ref |-> o, again |-> FALSE,
                                   cores |-> e.cores, should |-> e.should, errs |-> errs,
                                   events |-> ev, lvl |-> lvl]
                  /\ entries' = [g.entries EXCEPT ![o] = [e EXCEPT !.dirty = TRUE]]
                  /\ cePool' = [g.cePool EXCEPT ![o] = @ + 1]
                  /\ life' = [g.life EXCEPT ![o] = [@ EXCEPT !.used = TRUE, !.puts = @ + 1]]
    /\ UNCHANGED <<ringVars, hist, logVars, sinkVars, poolVars, lockVars, refs, made>>

\* the client sets its variable to nil, or the variable goes out of scope
EntryForget(h) ==
    /\ ~Exited
    /\ refs[h] # 0
    /\ refs' = [refs EXCEPT ![h] = 0]
    /\ lastWrite' = NoWrite
    /\ UNCHANGED <<ringVars, hist, logVars, sinkVars, poolVars, lockVars>>
    /\ UNCHANGED <<cePool, entries, life, made>>

\* the client before it has taken any handle
EntryInit ==
    /\ RingInit
    /\ Idle({})
    /\ cpc = "top"
    /\ enabled = Levels
    /\ NoSink
    /\ NoPool
    /\ NoThreads
    /\ cePool = <<>>
    /\ entries = <<>>
    /\ refs = [h \in Holders |-> 0]
    /\ life = <<>>
    /\ lastWrite = NoWrite
    /\ made = {}

EntryNext ==
    \/ \E h \in Holders, core \in Cores : EntryAddCore(h, core)
    \/ \E h \in Holders, should \in WriteActions : EntryShould(h, should)
    \/ \E h \in Holders : EntryWrite(h)
    \/ \E h \in Holders : EntryForget(h)

SpecEntry == EntryInit /\ [][EntryNext]_vars

\* the core of the Logger, log.core
LoggerCore == "c1"

\* the drain loop and a client with one variable share the pool
DrainNext ==
    \/ \E core \in Cores : EntryAddCore("a", core)
    \/ \E should \in WriteActions : EntryShould("a", should)
    \/ EntryWrite("a")
    \/ EntryForget("a")
    \/ \E lvl \in Levels, on \in BOOLEAN : EntryLog(lvl, on, LoggerCore)

SpecDrain == EntryInit /\ [][DrainNext]_vars

(***************************************************************************)
(* Claims about CheckedEntry, checked under SpecEntry and SpecDrain.       *)
(***************************************************************************)
\* Write has just returned, and it was called on a handle, not on nil
WroteHandle == lastWrite.by # "nobody" /\ lastWrite.ref # 0

\* the events of kind k that this call of Write caused
EventsOf(k) == SelectSeq(lastWrite.events, LAMBDA w : w.kind = k)

\* C18: the first Write on a handle since it was taken from the pool
\* writes the entry to each of its cores and puts the handle in the pool
\* once; a further Write on it before it is taken from the pool again
\* writes to no core, puts nothing in the pool and runs no terminal action;
\* so no handle is in the pool twice, nor put there more often than taken
C18_ConsumedOnce ==
    /\ (WroteHandle /\ ~lastWrite.again) =>
          /\ Len(EventsOf("write")) = Len(lastWrite.cores)
          /\ Len(EventsOf("put")) = 1
    /\ (WroteHandle /\ lastWrite.again) => lastWrite.events = <<>>
    /\ \A o \in DOMAIN entries : cePool[o] <= 1 /\ life[o].puts <= life[o].gets

\* C18 witness: a second Write on a handle that holds two cores and the
\* panic action, after the first Write put it in the pool, where it still is
C18_Witness ==
    /\ WroteHandle
    /\ lastWrite.again
    /\ Len(lastWrite.cores) = 2
    /\ lastWrite.should = "panic"
    /\ cePool[lastWrite.ref] = 1
    /\ life[lastWrite.ref].puts = 1

\* C19: a Write that is the first on its handle calls Write on the cores of
\* the handle one by one in the order they were added, each once, whatever
\* the earlier ones returned, keeps the errors of those that failed, and
\* runs the terminal action last, after the last core and the release
C19_AllCoresThenTerminal ==
    (WroteHandle /\ ~lastWrite.again) =>
        \E n \in {Len(lastWrite.cores)} :
            /\ Len(lastWrite.events) = n + (IF lastWrite.should = "noop" THEN 1 ELSE 2)
            /\ \A i \in 1..n :
                  lastWrite.events[i] =
                      [kind |-> "write", what |-> lastWrite.cores[i], err |-> lastWrite.errs[i]]
            /\ Len(Aggregated(lastWrite.events)) =
                  Cardinality({i \in 1..n : lastWrite.errs[i]})
            /\ lastWrite.events[n + 1].kind = "put"
            /\ lastWrite.should # "noop" =>
                  lastWrite.events[n + 2] =
                      [kind |-> "terminal", what |-> lastWrite.should, err |-> FALSE]

\* C19 witness: the first of two cores failed, the second was written all
\* the same, and os.Exit came after both
C19_Witness ==
    /\ WroteHandle
    /\ ~lastWrite.again
    /\ lastWrite.cores = <<"c1", "c2">>
    /\ lastWrite.errs = <<TRUE, FALSE>>
    /\ Len(lastWrite.events) = 4
    /\ lastWrite.events[2] = [kind |-> "write", what |-> "c2", err |-> FALSE]
    /\ lastWrite.events[4] = [kind |-> "terminal", what |-> "fatal", err |-> FALSE]

\* the terminal actions among what a Write did
TerminalEvents(w) == {i \in DOMAIN w.events : w.events[i].kind = "terminal"}

\* C34: every handle that getCheckedEntry returns has terminal action none
\* and no cores, whatever it was last used for; Logger.check tags a handle
\* with a terminal action exactly for a Panic or Fatal event; and the Write
\* of the handle of a Debug, Info, Warn or Error event runs no terminal
\* action.
C34_OnlyPanicFatalTerminate ==
    /\ \A o \in 1..Len(life) : life[o].first = [should |-> "noop", cores |-> 0]
    /\ lastWrite.lvl # "none" =>
          /\ lastWrite.lvl \in Terminating => lastWrite.should = lastWrite.lvl
          /\ lastWrite.lvl \notin Terminating =>
                /\ lastWrite.should = "noop"
                /\ TerminalEvents(lastWrite) = {}
                /\ \A i \in 1..Len(lastWrite.cores) : lastWrite.cores[i] = LoggerCore
                /\ Len(lastWrite.cores) <= 1

\* the drain loop has written an Info event with a handle that was used
\* before for an entry with cores and the terminal action panic; the Write
\* wrote to the one core and nothing else happened
C34_Witness ==
    /\ lastWrite.lvl = "info"
    /\ lastWrite.ref # 0
    /\ life[lastWrite.ref].gets = 2
    /\ life[lastWrite.ref].was.should = "panic"
    /\ life[lastWrite.ref].was.cores = 2
    /\ lastWrite.cores = <<LoggerCore>>
    /\ Len(lastWrite.events) = 2
    /\ TerminalEvents(lastWrite) = {}

(***************************************************************************)
(* The constructors of the two rings, newRandRing (src/randring.go) and    *)
(* New (src/internal/randring/randring.go), called with any size.          *)
(***************************************************************************)
\* the sizes tried are 0..MaxArg
MaxArg == 18

\* calls of the constructors
MaxNews == 3

\* if n > 16 || n == 0
MaxRingN == 16

Constructors == {"newRandRing", "New"}

RECURSIVE ShiftLeft(_, _)
\* x << n on uint64 (nothing is shifted out for the sizes tried)
ShiftLeft(x, n) == IF n = 0 THEN x ELSE ShiftLeft(2 * x, n - 1)

\* mutant of IllegalSize: the largest size is refused too
IllegalSizeFrom16(n) == n >= MaxRingN \/ n = 0

\* if n > 16 || n == 0 { panic("illegal ring size") }
IllegalSize(n) == n > MaxRingN \/ n = 0

\* the constructor panicked: no ring
NoRing == [panicked |-> TRUE, slots |-> 0, mask |-> 0]

\* newRandRing: buckets of length 1<<n, mask (1 << n) - 1
newRandRing(n) ==
    IF IllegalSize(n)
    THEN NoRing
    ELSE [panicked |-> FALSE, slots |-> ShiftLeft(1, n), mask |-> ShiftLeft(1, n) - 1]

\* randring.New, the same statements over []bucket
New(n) ==
    IF IllegalSize(n)
    THEN NoRing
    ELSE [panicked |-> FALSE, slots |-> ShiftLeft(1, n), mask |-> ShiftLeft(1, n) - 1]

\* a caller (one that recovers from the panic) calls constructor fn with n
CallNew(fn, n) ==
    /\ Cardinality(made) < MaxNews
    /\ made' = made \cup {[fn |-> fn, n |-> n,
                           ring |-> IF fn = "New" THEN New(n) ELSE newRandRing(n)]}
    /\ UNCHANGED <<ringVars, hist, logVars, sinkVars, poolVars, lockVars>>
    /\ UNCHANGED <<cePool, entries, refs, life, lastWrite>>

NewInit ==
    /\ RingInit
    /\ Idle({})
    /\ cpc = "top"
    /\ enabled = Levels
    /\ NoSink
    /\ NoPool
    /\ NoThreads
    /\ cePool = <<>>
    /\ entries = <<>>
    /\ refs = <<>>
    /\ life = <<>>
    /\ lastWrite = NoWrite
    /\ made = {}

NewNext == \E fn \in Constructors, n \in 0..MaxArg : CallNew(fn, n)

SpecNew == NewInit /\ [][NewNext]_vars

\* C20: for every n from 1 to 16 the constructor returns a ring of 2^n
\* slots with mask 2^n - 1; for n = 0 and for every n above 16 it panics
\* and no ring exists
C20_RingSize ==
    \A c \in made :
        /\ (1 <= c.n /\ c.n <= 16) =>
              /\ ~c.ring.panicked
              /\ c.ring.slots = 2^c.n
              /\ c.ring.mask = 2^c.n - 1
        /\ (c.n = 0 \/ c.n > 16) => c.ring = NoRing

\* C20 witness: newRandRing(16) made 65536 slots, newRandRing(17) and
\* newRandRing(0) panicked
C20_Witness ==
    /\ \E c \in made : c.fn = "newRandRing" /\ c.n = 16 /\ c.ring.slots = 65536
    /\ \E c \in made : c.fn = "newRandRing" /\ c.n = 17 /\ c.ring.panicked
    /\ \E c \in made : c.fn = "newRandRing" /\ c.n = 0 /\ c.ring.panicked

(***************************************************************************)
(* The logBody pool, src/bodypool.go: Logger methods take a logBody with   *)
(* getLogBody and set its fields, and the drain loop or an evicting Push   *)
(* releases it with free.                                                  *)
(***************************************************************************)
\* the logBody objects the pool's New function makes over a run
MaxBodies == 2

\* the messages and request ids a Logger method is called with
Msgs == {"m"}
Reqids == {"", "r"}

\* the variables of the CheckedEntry client and of the constructors
entryVars == <<cePool, entries, refs, life, lastWrite, made>>

\* the three fields an event carries
Fields(b) == [lvl |-> b.lvl, msg |-> b.msg, reqid |-> b.reqid]

\* mutant of reset: the fields are left as they are
resetNothing(b) == b

\* logBody.reset
reset(b) == [b EXCEPT !.lvl = "info", !.msg = "", !.reqid = ""]

\* the objects sync.Pool.Get may return: one that was put, or 0 for a new
\* one (the pool may call New whatever it holds)
Gettable ==
    {i \in 1..Len(bodies) : bodies[i].pooled} \cup
    (IF Len(bodies) < MaxBodies THEN {0} ELSE {})

\* logBodyPool.get: p.p.Get(), buf.reset(), buf.pool = p
BodyGet ==
    /\ \E src \in Gettable :
       \E i \in {IF src = 0 THEN Len(bodies) + 1 ELSE src} :
       \E b0 \in {IF src = 0 THEN CleanBody @@ [pooled |-> FALSE, set |-> FALSE]
                  ELSE bodies[src]} :
       \E b1 \in {[reset(b0) EXCEPT !.pooled = FALSE, !.set = FALSE]} :
          /\ bodies' = IF src = 0 THEN Append(bodies, b1) ELSE [bodies EXCEPT ![i] = b1]
          /\ lastGet' = [obj |-> i, fresh |-> src = 0, was |-> Fields(b0),
                         got |-> Fields(b1)]
    /\ UNCHANGED <<ringVars, hist, logVars, sinkVars, entryVars, lockVars>>

\* a Logger method fills the logBody it took: lb.msg, lb.lvl, lb.reqid
BodySet(i, lvl, msg, reqid) ==
    /\ i \in 1..Len(bodies)
    /\ ~bodies[i].pooled
    /\ ~bodies[i].set
    /\ bodies' = [bodies EXCEPT ![i] = [lvl |-> lvl, msg |-> msg, reqid |-> reqid,
                                        pooled |-> FALSE, set |-> TRUE]]
    /\ UNCHANGED <<ringVars, hist, logVars, sinkVars, entryVars, lockVars, lastGet>>

\* logBody.free: b.pool.put(b)
BodyFree(i) ==
    /\ i \in 1..Len(bodies)
    /\ ~bodies[i].pooled
    /\ bodies[i].set
    /\ bodies' = [bodies EXCEPT ![i].pooled = TRUE]
    /\ UNCHANGED <<ringVars, hist, logVars, sinkVars, entryVars, lockVars, lastGet>>

BodyInit ==
    /\ RingInit
    /\ Idle({})
    /\ cpc = "top"
    /\ enabled = Levels
    /\ NoSink
    /\ NoPool
    /\ NoThreads
    /\ cePool = <<>>
    /\ entries = <<>>
    /\ refs = <<>>
    /\ life = <<>>
    /\ lastWrite = NoWrite
    /\ made = {}

BodyNext ==
    \/ BodyGet
    \/ \E i \in 1..MaxBodies, lvl \in Levels, msg \in Msgs, reqid \in Reqids :
          BodySet(i, lvl, msg, reqid)
    \/ \E i \in 1..MaxBodies : BodyFree(i)

SpecBodyPool == BodyInit /\ [][BodyNext]_vars

\* C30: every logBody that get returns has level Info, an empty message and
\* an empty request id, whatever it held when it was released; and a logBody
\* that its taker has not filled yet shows nothing of an earlier event.
C30_GetReturnsClean ==
    /\ lastGet.obj # 0 => lastGet.got = CleanBody
    /\ \A i \in 1..Len(bodies) :
          (~bodies[i].pooled /\ ~bodies[i].set) => Fields(bodies[i]) = CleanBody

\* get has just returned a logBody that was released with another level, a
\* message and a request id
C30_Witness ==
    /\ lastGet.obj # 0
    /\ ~lastGet.fresh
    /\ lastGet.was.lvl = "error"
    /\ lastGet.was.msg # ""
    /\ lastGet.was.reqid # ""
    /\ ~bodies[lastGet.obj].pooled
    /\ ~bodies[lastGet.obj].set
    /\ Fields(bodies[lastGet.obj]) = CleanBody

(***************************************************************************)
(* Threads that share one Rotation and call Write and Sync on it           *)
(* (src/unnamed/part_005:119-175).  r.locker.Lock() is one step; what a     *)
(* call does between Lock and the deferred Unlock is four steps: the       *)
(* buffer and the counters, the hint of flushDirty, the rotation of        *)
(* flushDirty, and Unlock.                                                 *)
(***************************************************************************)
\* the threads that call Write and Sync
NumThreads == 2

Threads == 1..NumThreads

\* a thread outside Write and Sync
IdleThread ==
    [pc |-> "idle", op |-> "none", n |-> 0, at |-> 0, fail |-> "none", keep |-> FALSE,
     rotated |-> FALSE, snap |-> [r |-> NewRotation, d |-> 0]]

\* the thread is between r.locker.Lock() and the deferred Unlock
InCS(t) == thr[t].pc \in {"buf", "flush", "rotate", "unlock"}

\* mutant of LockFree: Lock returns whoever holds the mutex
LockAlways(l) == TRUE

\* sync.Mutex: Lock returns when no thread holds the mutex
LockFree(l) == l = 0

\* Rotation.Write(p), len(p) = n, run on its own from Rotation r and disk d
\* at time t: the Rotation and the disk when it returns
SeqWrite(r, d, n, t, fail, keep) ==
    The({ IF w.fw = 0 THEN [r |-> [r EXCEPT !.bufN = w.n], d |-> d]
          ELSE The({ [r |-> fd.r, d |-> fd.d] :
                     fd \in {FlushDirty([r EXCEPT !.bufN = w.n, !.dirty = @ + w.fw,
                                                  !.written = @ + w.fw],
                                        FileAppend(d, r.f, w.fw), FALSE, t, fail, keep)} }) :
          w \in {BufWrite(r.bufN, n)} })

\* Rotation.Sync() run on its own
SeqSync(r, d, t, fail, keep) ==
    The({ [r |-> fd.r, d |-> fd.d] :
          fd \in {FlushDirty([r EXCEPT !.bufN = 0, !.dirty = @ + r.bufN,
                                       !.written = @ + r.bufN],
                             FileAppend(d, r.f, r.bufN), TRUE, t, fail, keep)} })

\* the call of thread record c, run on its own from the state c found at Lock
Serial(c) ==
    IF c.op = "write" THEN SeqWrite(c.snap.r, c.snap.d, c.n, c.at, c.fail, c.keep)
    ELSE SeqSync(c.snap.r, c.snap.d, c.at, c.fail, c.keep)

\* a thread calls Write(p) or Sync() and arrives at r.locker.Lock()
ThrCall(t, op, n) ==
    /\ thr[t].pc = "idle"
    /\ op = "sync" => n = 0
    /\ accepted + n <= MaxAccepted
    /\ accepted' = accepted + n
    /\ thr' = [thr EXCEPT ![t] = [IdleThread EXCEPT !.pc = "lock", !.op = op, !.n = n]]
    /\ UNCHANGED <<sinkPc, now, rotation, disk, last, story, locker>>
    /\ UNCHANGED <<ringVars, hist, logVars, entryVars, poolVars>>

\* r.locker.Lock() returns
ThrLock(t) ==
    /\ thr[t].pc = "lock"
    /\ LockFree(locker)
    /\ locker' = t
    /\ thr' = [thr EXCEPT ![t].pc = "buf", ![t].snap = [r |-> rotation, d |-> disk]]
    /\ UNCHANGED <<sinkVars, ringVars, hist, logVars, entryVars, poolVars>>

\* Write: r.buf.write(p); Sync: r.buf.flush(); then r.dirty += fw and
\* r.written += fw; Write returns if fw == 0
ThrBuf(t) ==
    /\ thr[t].pc = "buf"
    /\ \E w \in {IF thr[t].op = "write" THEN BufWrite(rotation.bufN, thr[t].n)
                 ELSE [n |-> 0, fw |-> rotation.bufN]} :
          /\ rotation' = [rotation EXCEPT !.bufN = w.n, !.dirty = @ + w.fw,
                                          !.written = @ + w.fw]
          /\ disk' = FileAppend(disk, rotation.f, w.fw)
          /\ thr' = [thr EXCEPT ![t].pc = IF thr[t].op = "write" /\ w.fw = 0
                                          THEN "unlock" ELSE "flush"]
    /\ UNCHANGED <<sinkPc, now, accepted, last, story, locker>>
    /\ UNCHANGED <<ringVars, hist, logVars, entryVars, poolVars>>

\* flushDirty: if r.dirty >= r.cfg.PerSyncSize || force { ... }
ThrHint(t) ==
    /\ thr[t].pc = "flush"
    /\ rotation' = IF HintDue(rotation.dirty, thr[t].op = "sync")
                   THEN [rotation EXCEPT !.synced = @ + rotation.dirty, !.dirty = 0]
                   ELSE rotation
    /\ thr' = [thr EXCEPT ![t].pc = IF SizeReached(rotation.written)
                                    THEN "rotate" ELSE "unlock"]
    /\ UNCHANGED <<sinkPc, now, disk, accepted, last, story, locker>>
    /\ UNCHANGED <<ringVars, hist, logVars, entryVars, poolVars>>

\* flushDirty: if r.written >= r.cfg.MaxSize { ... }
ThrRotate(t, fail, keep) ==
    /\ thr[t].pc = "rotate"
    /\ \E ro \in {Rotate(rotation, disk, now, fail, keep)} :
          /\ rotation' = ro.r
          /\ disk' = ro.d
          /\ thr' = [thr EXCEPT ![t].pc = "unlock", ![t].at = now, ![t].fail = fail,
                                ![t].keep = keep, ![t].rotated = ro.openErr = "none"]
    /\ UNCHANGED <<sinkPc, now, accepted, last, story, locker>>
    /\ UNCHANGED <<ringVars, hist, logVars, entryVars, poolVars>>

\* defer r.locker.Unlock(), and the call returns
ThrUnlock(t) ==
    /\ thr[t].pc = "unlock"
    /\ locker' = 0
    /\ thr' = [thr EXCEPT ![t] = IdleThread]
    /\ UNCHANGED <<sinkVars, ringVars, hist, logVars, entryVars, poolVars>>

\* the Rotation that New made in an empty directory, and threads that have
\* called nothing yet
ThreadsInit ==
    /\ RingInit
    /\ Idle({})
    /\ cpc = "top"
    /\ enabled = Levels
    /\ sinkPc = "ready"
    /\ now = StartTick
    /\ \E o \in {Open(NewRotation, [live |-> 0, bk |-> <<>>, other |-> {}, inodes |-> <<>>],
                      StartTick, "none")} :
          /\ rotation = o.r
          /\ disk = o.d
    /\ accepted = 0
    /\ last = NoCall
    /\ story = NoStory
    /\ locker = 0
    /\ thr = [t \in Threads |-> IdleThread]
    /\ NoPool
    /\ cePool = <<>>
    /\ entries = <<>>
    /\ refs = <<>>
    /\ life = <<>>
    /\ lastWrite = NoWrite
    /\ made = {}

ThreadsNext ==
    \/ \E t \in Threads, op \in {"write", "sync"}, n \in 0..MaxWriteLen : ThrCall(t, op, n)
    \/ \E t \in Threads : ThrLock(t)
    \/ \E t \in Threads : ThrBuf(t)
    \/ \E t \in Threads : ThrHint(t)
    \/ \E t \in Threads, fail \in FailPoints \ {"readdir"}, keep \in BOOLEAN :
          ThrRotate(t, fail, keep)
    \/ \E t \in Threads : ThrUnlock(t)
    \/ Tick

SpecThreads == ThreadsInit /\ [][ThreadsNext]_vars

\* C26: Write and Sync run under one mutex.  At most one thread is between
\* Lock and Unlock, so no rotation runs while another Write or Sync does;
\* that thread holds the mutex; and when it arrives at Unlock the Rotation
\* (written, dirty, synced, the buffer, the file handle, the catalog) and
\* the files are what its call makes of the state it found at Lock when it
\* runs on its own: the calls take effect one after the other, in the order
\* of their Locks.
C26_WriteSyncSerial ==
    /\ \A t, u \in Threads : (InCS(t) /\ InCS(u)) => t = u
    /\ \A t \in Threads : InCS(t) => locker = t
    /\ \A t \in Threads :
          thr[t].pc = "buf" => thr[t].snap = [r |-> rotation, d |-> disk]
    /\ \A t \in Threads :
          thr[t].pc = "unlock" => Serial(thr[t]) = [r |-> rotation, d |-> disk]

\* a Write has rotated the file and is about to unlock while another
\* thread, which called Sync, waits for the mutex
C26_Witness ==
    /\ thr[1].pc = "unlock"
    /\ thr[1].op = "write"
    /\ thr[1].rotated
    /\ Len(rotation.bs) > 0
    /\ thr[2].pc = "lock"
    /\ thr[2].op = "sync"
    /\ locker = 1

=============================================================================
